---- MODULE Spec2Model ----
(***************************************************************************)
(* A model of the historic-addresses server (src/server.js, lines 1-1310): *)
(* the homes store, apiCache, the list / tags / map / calendar read        *)
(* handlers with their database callbacks, and the write handlers.         *)
(*                                                                         *)
(* Text is a sequence of one-character strings.  The two-letter tokens     *)
(* "zh" and "ZH" stand for the Cyrillic letters U+0436 and U+0416, the     *)
(* site's content being Bulgarian.                                         *)
(***************************************************************************)
EXTENDS Integers, Sequences, FiniteSets, TLC

VARIABLES
    db,       \* the homes table: id -> row
    cache,    \* apiCache.data: sequence of [k, d, e] in insertion order
    now,      \* Date.now(), in seconds
    reqs,     \* requests in flight: slot -> request record
    resp,     \* the response most recently written
    today,    \* the server's current calendar day [y, m, d]
    tz        \* the server's time zone: offset from UTC in hours

vars == <<db, cache, now, reqs, resp, today, tz>>

----------------------------------------------------------------------------
(* Bounds of the model *)

MaxHomes == 2
MaxReaders == 1
MaxWriters == 1
MaxTicks == 1

----------------------------------------------------------------------------
(* Text *)

Null == <<"NULL">>

\* null, undefined and the empty string are falsy.
Falsy(t) == t = Null \/ t = <<>>

CharCode(c) ==
    CASE c = " " -> 32
      [] c = "\"" -> 34
      [] c = "%" -> 37
      [] c = "," -> 44
      [] c = "-" -> 45
      [] c = "0" -> 48
      [] c = "1" -> 49
      [] c = "2" -> 50
      [] c = "3" -> 51
      [] c = "4" -> 52
      [] c = "5" -> 53
      [] c = "6" -> 54
      [] c = "7" -> 55
      [] c = "8" -> 56
      [] c = "9" -> 57
      [] c = "A" -> 65
      [] c = "B" -> 66
      [] c = "R" -> 82
      [] c = "[" -> 91
      [] c = "]" -> 93
      [] c = "_" -> 95
      [] c = "a" -> 97
      [] c = "b" -> 98
      [] c = "r" -> 114
      [] c = "ZH" -> 1046
      [] c = "zh" -> 1078
      [] OTHER -> 0

\* SQLite's LOWER() and LIKE fold the 26 ASCII letters only.
SqlLowerChar(c) ==
    CASE c = "A" -> "a"
      [] c = "B" -> "b"
      [] c = "R" -> "r"
      [] OTHER -> c

\* Unicode case folding (String.prototype.toLowerCase).
FoldChar(c) ==
    CASE c = "A" -> "a"
      [] c = "B" -> "b"
      [] c = "R" -> "r"
      [] c = "ZH" -> "zh"
      [] OTHER -> c

SqlLower(s) == [i \in 1..Len(s) |-> SqlLowerChar(s[i])]

Fold(s) == [i \in 1..Len(s) |-> FoldChar(s[i])]

\* s contains w as a contiguous substring.
Contains(s, w) ==
    \E i \in 1..(Len(s) - Len(w) + 1) : SubSeq(s, i, i + Len(w) - 1) = w

RECURSIVE LikeMatch(_, _)
\* SQLite's LIKE on already-lowered operands: % is any run, _ any one character.
LikeMatch(p, s) ==
    IF p = <<>> THEN s = <<>>
    ELSE IF Head(p) = "%"
         THEN LikeMatch(Tail(p), s) \/ (s # <<>> /\ LikeMatch(p, Tail(s)))
    ELSE IF s = <<>> THEN FALSE
    ELSE IF Head(p) = "_" THEN LikeMatch(Tail(p), Tail(s))
    ELSE Head(p) = Head(s) /\ LikeMatch(Tail(p), Tail(s))

\* LOWER(col) LIKE LOWER('%' || word || '%'); NULL columns never match.
SqlLikeContains(col, word) ==
    /\ col # Null
    /\ LikeMatch(<<"%">> \o SqlLower(word) \o <<"%">>, SqlLower(col))

RECURSIVE SplitWords(_)
\* search.trim().split(/\s+/).filter(w => w.length > 0)
SplitWords(s) ==
    IF s = <<>> THEN <<>>
    ELSE IF Head(s) = " " THEN SplitWords(Tail(s))
    ELSE LET n == IF \E i \in 1..Len(s) : s[i] = " "
                  THEN (CHOOSE i \in 1..Len(s) :
                            /\ s[i] = " "
                            /\ \A j \in 1..(i - 1) : s[j] # " ") - 1
                  ELSE Len(s)
         IN  <<SubSeq(s, 1, n)>> \o SplitWords(SubSeq(s, n + 1, Len(s)))

RECURSIVE JsonEscape(_)
\* The characters of a JSON string literal: a quote and a backslash are escaped.
JsonEscape(t) ==
    IF t = <<>> THEN <<>>
    ELSE (IF Head(t) \in {"\"", "\\"} THEN <<"\\", Head(t)>> ELSE <<Head(t)>>)
         \o JsonEscape(Tail(t))

JsonQuoteRaw(t) == <<"\"">> \o t \o <<"\"">>

\* JSON.stringify of a string.
JsonQuote(t) == <<"\"">> \o JsonEscape(t) \o <<"\"">>

RECURSIVE JoinTags(_)
JoinTags(ts) ==
    IF ts = <<>> THEN <<>>
    ELSE JsonQuote(Head(ts))
         \o (IF Len(ts) > 1 THEN <<",">> ELSE <<>>) \o JoinTags(Tail(ts))

\* JSON.stringify of a list of plain strings.
JsonStringify(ts) == <<"[">> \o JoinTags(ts) \o <<"]">>

\* JSON values: strings, arrays, and objects as lists of <<key, value>>.
JStr(t) == [t |-> "str", v |-> t]

JArr(vs) == [t |-> "arr", v |-> vs]

JObj(ms) == [t |-> "obj", v |-> ms]

RECURSIVE JsonText(_)
RECURSIVE JoinValues(_)
RECURSIVE JoinMembers(_)
\* JSON.stringify of a value: no white space, members in insertion order.
JsonText(v) ==
    IF v.t = "str" THEN JsonQuote(v.v)
    ELSE IF v.t = "arr" THEN <<"[">> \o JoinValues(v.v) \o <<"]">>
    ELSE <<"{">> \o JoinMembers(v.v) \o <<"}">>

JoinValues(vs) ==
    IF vs = <<>> THEN <<>>
    ELSE JsonText(Head(vs))
         \o (IF Len(vs) > 1 THEN <<",">> ELSE <<>>) \o JoinValues(Tail(vs))

JoinMembers(ms) ==
    IF ms = <<>> THEN <<>>
    ELSE JsonQuote(Head(ms)[1]) \o <<":">> \o JsonText(Head(ms)[2])
         \o (IF Len(ms) > 1 THEN <<",">> ELSE <<>>) \o JoinMembers(Tail(ms))

\* The outcome of a parse that throws SyntaxError.
JsonThrows == [ok |-> FALSE]

Parsed(v, next) == [ok |-> TRUE, val |-> v, next |-> next]

RECURSIVE ScanString(_, _, _)
\* The string literal whose opening quote is before position i.
ScanString(s, i, acc) ==
    IF i > Len(s) THEN JsonThrows
    ELSE IF s[i] = "\"" THEN Parsed(acc, i + 1)
    ELSE IF s[i] = "\\"
         THEN IF i + 1 <= Len(s) /\ s[i + 1] \in {"\"", "\\"}
              THEN ScanString(s, i + 2, Append(acc, s[i + 1]))
              ELSE JsonThrows
    ELSE ScanString(s, i + 1, Append(acc, s[i]))

RECURSIVE ParseValue(_, _)
RECURSIVE ParseElements(_, _, _)
RECURSIVE ParseMembers(_, _, _)
\* JSON.parse from position i, for texts of strings, arrays and objects
\* without white space; any other character is a SyntaxError.
ParseValue(s, i) ==
    IF i > Len(s) THEN JsonThrows
    ELSE IF s[i] = "\""
         THEN LET r == ScanString(s, i + 1, <<>>)
              IN  IF r.ok THEN Parsed(JStr(r.val), r.next) ELSE JsonThrows
    ELSE IF s[i] = "["
         THEN IF i + 1 <= Len(s) /\ s[i + 1] = "]"
              THEN Parsed(JArr(<<>>), i + 2)
              ELSE ParseElements(s, i + 1, <<>>)
    ELSE IF s[i] = "{"
         THEN IF i + 1 <= Len(s) /\ s[i + 1] = "}"
              THEN Parsed(JObj(<<>>), i + 2)
              ELSE ParseMembers(s, i + 1, <<>>)
    ELSE JsonThrows

ParseElements(s, i, acc) ==
    LET r == ParseValue(s, i)
    IN  IF ~r.ok \/ r.next > Len(s) THEN JsonThrows
        ELSE IF s[r.next] = "," THEN ParseElements(s, r.next + 1, Append(acc, r.val))
        ELSE IF s[r.next] = "]" THEN Parsed(JArr(Append(acc, r.val)), r.next + 1)
        ELSE JsonThrows

ParseMembers(s, i, acc) ==
    IF i > Len(s) \/ s[i] # "\"" THEN JsonThrows
    ELSE LET k == ScanString(s, i + 1, <<>>)
         IN  IF ~k.ok \/ k.next > Len(s) \/ s[k.next] # ":" THEN JsonThrows
             ELSE LET r == ParseValue(s, k.next + 1)
                  IN  IF ~r.ok \/ r.next > Len(s) THEN JsonThrows
                      ELSE IF s[r.next] = ","
                           THEN ParseMembers(s, r.next + 1, Append(acc, <<k.val, r.val>>))
                      ELSE IF s[r.next] = "}"
                           THEN Parsed(JObj(Append(acc, <<k.val, r.val>>)), r.next + 1)
                      ELSE JsonThrows

\* JSON.parse(text): the value, or JsonThrows.
JsonParse(s) ==
    LET r == ParseValue(s, 1)
    IN  IF r.ok /\ r.next = Len(s) + 1 THEN r ELSE JsonThrows

RECURSIVE ToJs(_)
\* The JavaScript value of a parsed text: a string is its text, an array a
\* sequence, an object a function of its keys (a repeated key keeps the last).
ToJs(v) ==
    IF v.t = "str" THEN v.v
    ELSE IF v.t = "arr" THEN [i \in 1..Len(v.v) |-> ToJs(v.v[i])]
    ELSE [k \in {v.v[i][1] : i \in 1..Len(v.v)} |->
             ToJs(v.v[CHOOSE i \in 1..Len(v.v) :
                         /\ v.v[i][1] = k
                         /\ \A j \in (i + 1)..Len(v.v) : v.v[j][1] # k][2])]

PathKey == <<"p", "a", "t", "h">>

CaptionKey == <<"c", "a", "p", "t", "i", "o", "n">>

AltKey == <<"a", "l", "t">>

\* An image object of a request body, as JSON.stringify walks it.
ImageValue(img) ==
    JObj(<<<<PathKey, JStr(img[PathKey])>>,
           <<CaptionKey, JStr(img[CaptionKey])>>,
           <<AltKey, JStr(img[AltKey])>>>>)

\* JSON.stringify(home.images || [])
StringifyImages(images) ==
    JsonText(JArr([i \in 1..Len(images) |-> ImageValue(images[i])]))

RECURSIVE TextLess(_, _)
\* Bytewise order of two texts (SQLite's BINARY collation).
TextLess(a, b) ==
    IF b = <<>> THEN FALSE
    ELSE IF a = <<>> THEN TRUE
    ELSE IF CharCode(Head(a)) # CharCode(Head(b))
         THEN CharCode(Head(a)) < CharCode(Head(b))
    ELSE TextLess(Tail(a), Tail(b))

----------------------------------------------------------------------------
(* Query parameters of GET /api/homes *)

DefaultPage == 1
DefaultLimit == 6
MaxLimit == 20

\* A raw query-string value: absent, not a number, or text that parseInt reads as n.
RawNone == [t |-> "none", n |-> 0]
RawText == [t |-> "text", n |-> 0]
RawNum(n) == [t |-> "num", n |-> n]

\* parseInt(raw) || dflt : NaN and 0 are falsy.
ParseIntOr(raw, dflt) == IF raw.t = "num" /\ raw.n # 0 THEN raw.n ELSE dflt

Min(a, b) == IF a < b THEN a ELSE b

Max(a, b) == IF a < b THEN b ELSE a

ListPage(q) == ParseIntOr(q.page, DefaultPage)

ListLimit(q) == Min(ParseIntOr(q.limit, DefaultLimit), MaxLimit)

ListOffset(q) == (ListPage(q) - 1) * ListLimit(q)

CeilDivFloor(a, b) == a \div b

\* Math.ceil(a / b) for integers a >= 0 and b # 0.
CeilDiv(a, b) == IF b > 0 THEN (a + b - 1) \div b ELSE -(a \div (-b))

----------------------------------------------------------------------------
(* The WHERE clause of GET /api/homes *)

SearchWords(q) == SplitWords(q.search)

\* search is truthy but holds no word: the clause is "()", which SQLite rejects.
WhereSyntaxError(q) == q.search # <<>> /\ SearchWords(q) = <<>>

WordMatchesNameOnly(row, w) == SqlLikeContains(row.name, w)

WordMatchesAll(row, w) ==
    \/ SqlLikeContains(row.name, w)
    \/ SqlLikeContains(row.biography, w)
    \/ SqlLikeContains(row.address, w)
    \/ SqlLikeContains(row.tags, w)

SearchMatch(q, row) ==
    \A i \in 1..Len(SearchWords(q)) :
        IF q.searchMode = "name"
        THEN WordMatchesNameOnly(row, SearchWords(q)[i])
        ELSE WordMatchesAll(row, SearchWords(q)[i])

TagMatch(q, row) == SqlLikeContains(row.tags, q.tag)

WhereMatch(q, row) ==
    /\ (~q.all => row.published = 1)
    /\ (q.search # <<>> => SearchMatch(q, row))
    /\ (q.tag # <<>> => TagMatch(q, row))

Matching(d, q) == {r \in d : WhereMatch(q, r)}

\* SELECT COUNT(*) ... WHERE
CountRows(d, q) == Cardinality(Matching(d, q))

\* The orders ORDER BY name may deliver: rows with equal names in any order.
RECURSIVE Orderings(_)
Orderings(S) ==
    IF S = {} THEN {<<>>}
    ELSE UNION {{<<r>> \o o : o \in Orderings(S \ {r})} :
                r \in {x \in S : \A y \in S : ~TextLess(y.name, x.name)}}

\* LIMIT ? OFFSET ? : a negative LIMIT is no limit, a negative OFFSET is 0.
LimitOffsetNoLimit(rows, limit, offset) ==
    SubSeq(rows, Max(offset, 0) + 1, Len(rows))

LimitOffset(rows, limit, offset) ==
    IF limit < 0
    THEN SubSeq(rows, Max(offset, 0) + 1, Len(rows))
    ELSE SubSeq(rows, Max(offset, 0) + 1, Min(Max(offset, 0) + limit, Len(rows)))

\* The pages the paginated SELECT may deliver.
FetchRows(d, q) ==
    {LimitOffset(o, ListLimit(q), ListOffset(q)) : o \in Orderings(Matching(d, q))}

\* JSON.parse inside the try block of the list path threw.
ListParseThrows(text) == ~Falsy(text) /\ ~JsonParse(text).ok

\* firstImage: the first element of the parsed images, when there is one.
FirstImage(row) ==
    IF Falsy(row.images) \/ ListParseThrows(row.images) THEN <<>>
    ELSE LET img == JsonParse(row.images).val
         IN  IF img.t = "arr" /\ Len(img.v) > 0 THEN <<ToJs(img.v[1])>> ELSE <<>>

\* tags: parsed after the images inside the same try block.
ListTags(row) ==
    IF ListParseThrows(row.images) \/ Falsy(row.tags) \/ ListParseThrows(row.tags)
    THEN <<>>
    ELSE ToJs(JsonParse(row.tags).val)

\* rowToHome(row, true): the summary of a list row.
RowToHomeList(row) ==
    [id |-> row.id, slug |-> row.slug, name |-> row.name,
     images |-> FirstImage(row), tags |-> ListTags(row), published |-> TRUE]

\* The body of a successful list response.
ListBody(q, total, rows) ==
    [data |-> [i \in 1..Len(rows) |-> RowToHomeList(rows[i])],
     pagination |->
        [page |-> ListPage(q),
         limit |-> ListLimit(q),
         total |-> total,
         totalPages |-> CeilDiv(total, ListLimit(q)),
         hasNext |-> ListPage(q) < CeilDiv(total, ListLimit(q)),
         hasPrev |-> ListPage(q) > 1]]

IsInitializingNever(q, body) == FALSE

\* isInitializing: an empty page of an unfiltered request is not cached.
IsInitializing(q, body) ==
    Len(body.data) = 0 /\ q.search = <<>> /\ q.tag = <<>>

DbError == [error |-> <<"Database error">>]

NoResp == [kind |-> "none", req |-> <<>>, status |-> 0, body |-> <<>>, hit |-> FALSE]

Response(kind, req, status, body, hit) ==
    [kind |-> kind, req |-> req, status |-> status, body |-> body, hit |-> hit]

----------------------------------------------------------------------------
(* apiCache *)

CacheMaxSize == 200
CacheTtlList == 30

CacheIndex(c, k) == {i \in 1..Len(c) : c[i].k = k}

CacheFreshIgnoringExpiry(c, k, t) == CacheIndex(c, k) # {}

\* get(key) finds an item whose expiry has not passed.
CacheFresh(c, k, t) == \E i \in CacheIndex(c, k) : ~(t > c[i].e)

CacheValue(c, k) == c[CHOOSE i \in CacheIndex(c, k) : TRUE].d

\* get(key) deletes the item it finds expired.
CacheAfterGet(c, k, t) == SelectSeq(c, LAMBDA x : ~(x.k = k /\ t > x.e))

CacheSetNoEviction(c, k, v, ttl, t) ==
    IF CacheIndex(c, k) # {}
    THEN [i \in 1..Len(c) |-> IF c[i].k = k THEN [k |-> k, d |-> v, e |-> t + ttl] ELSE c[i]]
    ELSE Append(c, [k |-> k, d |-> v, e |-> t + ttl])

\* set(key, value, ttlSeconds): at maxSize the first quarter of the keys goes;
\* a key already present keeps its place in the Map.
CacheSet(c, k, v, ttl, t) ==
    LET kept == IF Len(c) >= CacheMaxSize
                THEN SubSeq(c, (CacheMaxSize * 25) \div 100 + 1, Len(c))
                ELSE c
        item == [k |-> k, d |-> v, e |-> t + ttl]
    IN  IF CacheIndex(kept, k) # {}
        THEN [i \in 1..Len(kept) |-> IF kept[i].k = k THEN item ELSE kept[i]]
        ELSE Append(kept, item)

\* const cacheKey = req.url
ListKey(q) == [route |-> "/api/homes", q |-> q]

----------------------------------------------------------------------------
(* The homes table and insertHome *)

IsSlugChar(c) ==
    \/ CharCode(c) \in 97..122
    \/ CharCode(c) \in 48..57
    \/ c = " "
    \/ c = "-"

RECURSIVE CollapseHyphens(_)
CollapseHyphens(s) ==
    IF Len(s) < 2 THEN s
    ELSE IF s[1] = "-" /\ s[2] = "-" THEN CollapseHyphens(Tail(s))
    ELSE <<Head(s)>> \o CollapseHyphens(Tail(s))

TrimHyphens(s) ==
    LET a == IF s # <<>> /\ Head(s) = "-" THEN Tail(s) ELSE s
    IN  IF a # <<>> /\ a[Len(a)] = "-" THEN SubSeq(a, 1, Len(a) - 1) ELSE a

\* name.toLowerCase().replace(/[^a-z0-9\s-]/g, '').replace(/\s+/g, '-')
\*     .replace(/-+/g, '-').replace(/(^-|-$)/g, '')
Slugify(name) ==
    LET kept == SelectSeq(Fold(name), IsSlugChar)
        dashed == [i \in 1..Len(kept) |-> IF kept[i] = " " THEN "-" ELSE kept[i]]
    IN  TrimHyphens(CollapseHyphens(dashed))

OrNull(t) == IF Falsy(t) THEN Null ELSE t

\* const coordinates = home.coordinates || {}; a body without the property
\* has it undefined.
Coordinates(home) ==
    IF "coordinates" \in DOMAIN home
    THEN home.coordinates
    ELSE [lat |-> Null, lng |-> Null]

\* A coordinate is modelled by the decimal text of the number.
Zero == <<"0">>

\* coordinates.lat || null : undefined and the number 0 are falsy.
CoordOrNull(n) == IF n = Null \/ n = Zero THEN Null ELSE n

\* home.images || []
BodyImages(home) == IF "images" \in DOMAIN home THEN home.images ELSE <<>>

\* home.sources || []
BodySources(home) == IF "sources" \in DOMAIN home THEN home.sources ELSE <<>>

PostSlug(home) == IF Falsy(home.slug) THEN Slugify(home.name) ELSE home.slug

PostIdNoDefault(home) == home.id

PostId(home) == IF Falsy(home.id) THEN PostSlug(home) ELSE home.id

\* The row insertHome binds for the body of POST /api/homes, which the handler
\* has stamped with the time of the request.
PostRow(home) ==
    [id |-> PostId(home),
     slug |-> PostSlug(home),
     name |-> home.name,
     biography |-> home.biography,
     address |-> home.address,
     lat |-> CoordOrNull(Coordinates(home).lat),
     lng |-> CoordOrNull(Coordinates(home).lng),
     images |-> StringifyImages(BodyImages(home)),
     sources |-> JsonStringify(BodySources(home)),
     tags |-> JsonStringify(home.tags),
     published |-> IF home.published THEN 1 ELSE 0,
     birth_date |-> OrNull(home.birth_date),
     death_date |-> OrNull(home.death_date),
     created_at |-> now,
     updated_at |-> now]

\* INSERT OR REPLACE: rows that clash on the primary key or on the unique slug go.
InsertOrReplace(d, row) ==
    {r \in d : r.id # row.id /\ (r.slug # row.slug \/ row.slug = Null)} \cup {row}

PutRowKeepSlug(old, home) ==
    [id |-> old.id,
     slug |-> old.slug,
     name |-> home.name,
     biography |-> home.biography,
     address |-> home.address,
     lat |-> CoordOrNull(Coordinates(home).lat),
     lng |-> CoordOrNull(Coordinates(home).lng),
     images |-> StringifyImages(BodyImages(home)),
     sources |-> JsonStringify(BodySources(home)),
     tags |-> JsonStringify(home.tags),
     published |-> IF home.published THEN 1 ELSE 0,
     birth_date |-> OrNull(home.birth_date),
     death_date |-> OrNull(home.death_date),
     created_at |-> old.created_at,
     updated_at |-> home.updated_at]

\* The row UPDATE homes SET ... WHERE id = ? writes over old.
PutRow(old, home) ==
    [id |-> old.id,
     slug |-> home.slug,
     name |-> home.name,
     biography |-> home.biography,
     address |-> home.address,
     lat |-> CoordOrNull(Coordinates(home).lat),
     lng |-> CoordOrNull(Coordinates(home).lng),
     images |-> StringifyImages(BodyImages(home)),
     sources |-> JsonStringify(BodySources(home)),
     tags |-> JsonStringify(home.tags),
     published |-> IF home.published THEN 1 ELSE 0,
     birth_date |-> OrNull(home.birth_date),
     death_date |-> OrNull(home.death_date),
     created_at |-> old.created_at,
     updated_at |-> home.updated_at]

\* NOT NULL on name, UNIQUE on slug.
UpdateFails(d, id, home) ==
    /\ \E r \in d : r.id = id
    /\ \/ home.name = Null
       \/ (home.slug # Null /\ \E r \in d : r.id # id /\ r.slug = home.slug)

----------------------------------------------------------------------------
(* Requests in flight *)

Readers == 1..MaxReaders

Writers == (MaxReaders + 1)..(MaxReaders + MaxWriters)

Slots == Readers \cup Writers

Idle == [kind |-> "idle"]

Finish(s) == reqs' = [reqs EXCEPT ![s] = Idle]

\* GET /api/homes: the cache check; on a miss the count query is queued.
ListStart(s, q) ==
    /\ reqs[s] = Idle
    /\ IF CacheFresh(cache, ListKey(q), now)
       THEN /\ resp' = Response("list", q, 200, CacheValue(cache, ListKey(q)), TRUE)
            /\ UNCHANGED <<cache, reqs>>
       ELSE /\ cache' = CacheAfterGet(cache, ListKey(q), now)
            /\ reqs' = [reqs EXCEPT ![s] =
                           [kind |-> "list", pc |-> "count", q |-> q,
                            total |-> 0, rows |-> <<>>]]
            /\ UNCHANGED resp
    /\ UNCHANGED <<db, now, today, tz>>

\* SELECT COUNT(*) runs and its callback queues the paginated SELECT.
ListCount(s) ==
    /\ reqs[s].kind = "list"
    /\ reqs[s].pc = "count"
    /\ IF WhereSyntaxError(reqs[s].q)
       THEN /\ resp' = Response("list", reqs[s].q, 500, DbError, FALSE)
            /\ Finish(s)
       ELSE /\ reqs' = [reqs EXCEPT ![s].pc = "fetch",
                                    ![s].total = CountRows(db, reqs[s].q)]
            /\ UNCHANGED resp
    /\ UNCHANGED <<db, cache, now, today, tz>>

\* The paginated SELECT runs.
ListFetch(s) ==
    /\ reqs[s].kind = "list"
    /\ reqs[s].pc = "fetch"
    /\ \E rows \in FetchRows(db, reqs[s].q) :
           reqs' = [reqs EXCEPT ![s].pc = "callback", ![s].rows = rows]
    /\ UNCHANGED <<db, cache, now, resp, today, tz>>

\* The callback of the paginated SELECT: build, cache, respond.
ListCallback(s) ==
    /\ reqs[s].kind = "list"
    /\ reqs[s].pc = "callback"
    /\ LET q == reqs[s].q
           body == ListBody(q, reqs[s].total, reqs[s].rows)
       IN  /\ cache' = IF IsInitializing(q, body)
                       THEN cache
                       ELSE CacheSet(cache, ListKey(q), body, CacheTtlList, now)
           /\ resp' = Response("list", q, 200, body, FALSE)
    /\ Finish(s)
    /\ UNCHANGED <<db, now, today, tz>>

\* POST /api/homes: validate, queue the INSERT, clear the cache, answer 201.
PostHome(s, home) ==
    /\ reqs[s] = Idle
    /\ IF Falsy(home.name)
       THEN /\ resp' = Response("post", home, 400, [error |-> <<"Name is required">>], FALSE)
            /\ UNCHANGED <<cache, reqs>>
       ELSE /\ reqs' = [reqs EXCEPT ![s] =
                           [kind |-> "post", pc |-> "insert", row |-> PostRow(home)]]
            /\ cache' = <<>>
            /\ resp' = Response("post", home, 201,
                                [id |-> PostId(home), slug |-> PostSlug(home)], FALSE)
    /\ UNCHANGED <<db, now, today, tz>>

\* The queued INSERT OR REPLACE runs; insertHome passes no callback.
InsertExec(s) ==
    /\ reqs[s].kind = "post"
    /\ reqs[s].pc = "insert"
    /\ db' = InsertOrReplace(db, reqs[s].row)
    /\ Finish(s)
    /\ UNCHANGED <<cache, now, resp, today, tz>>

\* home.updated_at = new Date().toISOString()
PutBody(home) ==
    [f \in DOMAIN home \cup {"updated_at"} |->
        IF f = "updated_at" THEN now ELSE home[f]]

\* PUT /api/homes/:id stamps the body and queues the UPDATE.
PutHome(s, id, home) ==
    /\ reqs[s] = Idle
    /\ reqs' = [reqs EXCEPT ![s] =
                   [kind |-> "put", pc |-> "update", id |-> id, home |-> PutBody(home),
                    err |-> FALSE, changes |-> 0]]
    /\ UNCHANGED <<db, cache, now, resp, today, tz>>

\* The UPDATE runs.
UpdateExec(s) ==
    /\ reqs[s].kind = "put"
    /\ reqs[s].pc = "update"
    /\ LET id == reqs[s].id
           home == reqs[s].home
       IN  IF UpdateFails(db, id, home)
           THEN /\ reqs' = [reqs EXCEPT ![s].pc = "callback", ![s].err = TRUE]
                /\ UNCHANGED db
           ELSE /\ db' = {IF r.id = id THEN PutRow(r, home) ELSE r : r \in db}
                /\ reqs' = [reqs EXCEPT ![s].pc = "callback",
                                        ![s].changes = Cardinality({r \in db : r.id = id})]
    /\ UNCHANGED <<cache, now, resp, today, tz>>

\* The callback of the UPDATE.
PutCallback(s) ==
    /\ reqs[s].kind = "put"
    /\ reqs[s].pc = "callback"
    /\ IF reqs[s].err
       THEN /\ resp' = Response("put", reqs[s].id, 500, DbError, FALSE)
            /\ UNCHANGED cache
       ELSE IF reqs[s].changes = 0
       THEN /\ resp' = Response("put", reqs[s].id, 404, [error |-> <<"Home not found">>], FALSE)
            /\ UNCHANGED cache
       ELSE /\ cache' = <<>>
            /\ resp' = Response("put", reqs[s].id, 200, <<>>, FALSE)
    /\ Finish(s)
    /\ UNCHANGED <<db, now, today, tz>>

\* DELETE /api/homes/:id queues the DELETE.
DeleteHome(s, id) ==
    /\ reqs[s] = Idle
    /\ reqs' = [reqs EXCEPT ![s] =
                   [kind |-> "delete", pc |-> "delete", id |-> id, changes |-> 0]]
    /\ UNCHANGED <<db, cache, now, resp, today, tz>>

\* The DELETE runs.
DeleteExec(s) ==
    /\ reqs[s].kind = "delete"
    /\ reqs[s].pc = "delete"
    /\ db' = {r \in db : r.id # reqs[s].id}
    /\ reqs' = [reqs EXCEPT ![s].pc = "callback",
                            ![s].changes = Cardinality({r \in db : r.id = reqs[s].id})]
    /\ UNCHANGED <<cache, now, resp, today, tz>>

\* The callback of the DELETE: clear the cache, answer 200 with the deleted flag.
DeleteCallback(s) ==
    /\ reqs[s].kind = "delete"
    /\ reqs[s].pc = "callback"
    /\ cache' = <<>>
    /\ resp' = Response("delete", reqs[s].id, 200, [deleted |-> reqs[s].changes > 0], FALSE)
    /\ Finish(s)
    /\ UNCHANGED <<db, now, today, tz>>

TickSeconds == 31

\* Time passes.
Tick ==
    /\ now < MaxTicks * TickSeconds
    /\ now' = now + TickSeconds
    /\ UNCHANGED <<db, cache, reqs, resp, today, tz>>

----------------------------------------------------------------------------
(* GET /api/homes of the low-memory variant of the server (src/unnamed/part_004) *)

LeanMaxLimit == 10
LeanMaxOffset == 500
LeanKeysetOffset == 50

LeanLimit(q) == Min(ParseIntOr(q.limit, DefaultLimit), LeanMaxLimit)

LeanOffset(q) == (ListPage(q) - 1) * LeanLimit(q)

RECURSIVE TrimLeft(_)
TrimLeft(s) == IF s # <<>> /\ Head(s) = " " THEN TrimLeft(Tail(s)) ELSE s

RECURSIVE TrimRight(_)
TrimRight(s) ==
    IF s # <<>> /\ s[Len(s)] = " " THEN TrimRight(SubSeq(s, 1, Len(s) - 1)) ELSE s

\* LOWER(col) LIKE '%' + text.toLowerCase() + '%'
LeanLike(col, text) ==
    /\ col # Null
    /\ LikeMatch(<<"%">> \o Fold(text) \o <<"%">>, SqlLower(col))

LeanSearchMatch(q, row) ==
    LET w == TrimLeft(TrimRight(q.search))
    IN  IF q.searchMode \in {"name", "smart"}
        THEN LeanLike(row.name, w)
        ELSE \/ LeanLike(row.name, w)
             \/ LeanLike(row.biography, w)
             \/ LeanLike(row.address, w)

LeanWhereMatch(q, row) ==
    /\ (~q.all => row.published = 1)
    /\ (q.search # <<>> => LeanSearchMatch(q, row))
    /\ (q.tag # <<>> => LeanLike(row.tags, q.tag))

LeanMatching(d, q) == {r \in d : LeanWhereMatch(q, r)}

\* Array.prototype.slice(from, to) for 0 <= from and 0 <= to
JsSlice(rows, from, to) == SubSeq(rows, from + 1, Min(to, Len(rows)))

\* Past LeanKeysetOffset the handler reads offset + limit rows and slices them.
LeanFetchRows(d, q) ==
    {IF LeanOffset(q) > LeanKeysetOffset
     THEN JsSlice(LimitOffset(o, LeanOffset(q) + LeanLimit(q), 0),
                  LeanOffset(q), LeanOffset(q) + LeanLimit(q))
     ELSE LimitOffset(o, LeanLimit(q), LeanOffset(q)) :
        o \in Orderings(LeanMatching(d, q))}

\* sendResponse
LeanBody(q, total, rows) ==
    [data |-> [i \in 1..Len(rows) |->
                  [id |-> rows[i].id, slug |-> rows[i].slug, name |-> rows[i].name,
                   published |-> rows[i].published = 1]],
     pagination |->
        [page |-> ListPage(q),
         limit |-> LeanLimit(q),
         total |-> total,
         totalPages |-> CeilDiv(total, LeanLimit(q)),
         hasNext |-> ListPage(q) < CeilDiv(total, LeanLimit(q)),
         hasPrev |-> ListPage(q) > 1]]

\* The handler up to the count query: offsets past LeanMaxOffset are refused.
LeanListStart(s, q) ==
    /\ reqs[s] = Idle
    /\ IF LeanOffset(q) > LeanMaxOffset
       THEN /\ resp' = Response("leanlist", q, 400,
                                [error |-> <<"Page number too high">>], FALSE)
            /\ UNCHANGED reqs
       ELSE /\ reqs' = [reqs EXCEPT ![s] =
                           [kind |-> "leanlist", pc |-> "count", q |-> q, total |-> 0]]
            /\ UNCHANGED resp
    /\ UNCHANGED <<db, cache, now, today, tz>>

LeanListCount(s) ==
    /\ reqs[s].kind = "leanlist"
    /\ reqs[s].pc = "count"
    /\ reqs' = [reqs EXCEPT ![s].pc = "fetch",
                            ![s].total = Cardinality(LeanMatching(db, reqs[s].q))]
    /\ UNCHANGED <<db, cache, now, resp, today, tz>>

LeanListFetch(s) ==
    /\ reqs[s].kind = "leanlist"
    /\ reqs[s].pc = "fetch"
    /\ \E rows \in LeanFetchRows(db, reqs[s].q) :
           resp' = Response("leanlist", reqs[s].q, 200,
                            LeanBody(reqs[s].q, reqs[s].total, rows), FALSE)
    /\ Finish(s)
    /\ UNCHANGED <<db, cache, now, today, tz>>

----------------------------------------------------------------------------
(* Dates: text "YYYY-MM-DD" as SQLite's strftime and JavaScript's Date read it *)

Digits == <<"0", "1", "2", "3", "4", "5", "6", "7", "8", "9">>

IsDigit(c) == CharCode(c) \in 48..57

RECURSIVE NumText(_)
\* String(n)
NumText(n) ==
    IF n < 0 THEN <<"-">> \o NumText(-n)
    ELSE IF n < 10 THEN <<Digits[n + 1]>>
    ELSE NumText(n \div 10) \o <<Digits[(n % 10) + 1]>>

RECURSIVE PadStart2(_)
\* text.padStart(2, '0')
PadStart2(t) == IF Len(t) < 2 THEN PadStart2(<<"0">> \o t) ELSE t

RECURSIVE TextNum(_)
TextNum(t) ==
    IF t = <<>> THEN 0
    ELSE TextNum(SubSeq(t, 1, Len(t) - 1)) * 10 + (CharCode(t[Len(t)]) - 48)

IsLeap(y) == (y % 4 = 0 /\ y % 100 # 0) \/ y % 400 = 0

DaysInMonth(y, m) ==
    IF m = 2 THEN (IF IsLeap(y) THEN 29 ELSE 28)
    ELSE IF m \in {4, 6, 9, 11} THEN 30 ELSE 31

IsIsoShape(t) ==
    /\ t # Null
    /\ Len(t) = 10
    /\ \A i \in {1, 2, 3, 4, 6, 7, 9, 10} : IsDigit(t[i])
    /\ t[5] = "-"
    /\ t[8] = "-"

NotADate == [ok |-> FALSE, y |-> 0, m |-> 0, d |-> 0]

\* The UTC calendar day a date-only text denotes.  Both readers take a day of
\* 1..31 in any month and carry the excess into the next month.
ParseDate(t) ==
    IF ~IsIsoShape(t) THEN NotADate
    ELSE LET y == TextNum(SubSeq(t, 1, 4))
             m == TextNum(SubSeq(t, 6, 7))
             d == TextNum(SubSeq(t, 9, 10))
         IN  IF m \notin 1..12 \/ d \notin 1..31 THEN NotADate
             ELSE IF d <= DaysInMonth(y, m) THEN [ok |-> TRUE, y |-> y, m |-> m, d |-> d]
             ELSE [ok |-> TRUE, y |-> y, m |-> m + 1, d |-> d - DaysInMonth(y, m)]

PrevDay(dt) ==
    IF dt.d > 1 THEN [dt EXCEPT !.d = dt.d - 1]
    ELSE IF dt.m > 1 THEN [dt EXCEPT !.m = dt.m - 1, !.d = DaysInMonth(dt.y, dt.m - 1)]
    ELSE [dt EXCEPT !.y = dt.y - 1, !.m = 12, !.d = 31]

NextDay(dt) ==
    IF dt.d < DaysInMonth(dt.y, dt.m) THEN [dt EXCEPT !.d = dt.d + 1]
    ELSE IF dt.m < 12 THEN [dt EXCEPT !.m = dt.m + 1, !.d = 1]
    ELSE [dt EXCEPT !.y = dt.y + 1, !.m = 1, !.d = 1]

\* new Date(text) is midnight UTC; getDate() and getFullYear() read it in the
\* zone of the host, zone hours east of Greenwich.
LocalDate(t, zone) ==
    LET u == ParseDate(t)
    IN  IF u.ok /\ zone < 0 THEN PrevDay(u) ELSE u

NaNText == <<"N", "a", "N">>

\* String(new Date(text).getDate()).padStart(2, '0')
GetDateText(t, zone) ==
    IF LocalDate(t, zone).ok THEN PadStart2(NumText(LocalDate(t, zone).d)) ELSE NaNText

\* year - new Date(text).getFullYear(); NaN is null in the JSON body.
YearsAgo(year, t, zone) ==
    IF LocalDate(t, zone).ok THEN year - LocalDate(t, zone).y ELSE Null

\* strftime('%m', text)
StrfMonth(t) ==
    IF ParseDate(t).ok THEN PadStart2(NumText(ParseDate(t).m)) ELSE Null

\* strftime('%m-%d', text)
StrfMonthDay(t) ==
    IF ParseDate(t).ok
    THEN PadStart2(NumText(ParseDate(t).m)) \o <<"-">> \o PadStart2(NumText(ParseDate(t).d))
    ELSE Null

\* text.substring(5)
Substring5(t) == SubSeq(t, 6, Len(t))

----------------------------------------------------------------------------
(* GET /api/calendar/today and GET /api/calendar *)

CalendarTtl == 300

TodayKey == [route |-> "calendar_today", q |-> <<>>]

CalendarKey(month, year) == [route |-> "calendar", q |-> <<month, year>>]

RECURSIVE AnyOrder(_)
\* A query without ORDER BY delivers its rows in some order.
AnyOrder(S) ==
    IF S = {} THEN {<<>>}
    ELSE UNION {{<<r>> \o o : o \in AnyOrder(S \ {r})} : r \in S}

Event(row, type, date, yearsAgo) ==
    [name |-> row.name, slug |-> row.slug, type |-> type,
     full_date |-> date, years_ago |-> yearsAgo]

\* String(today.getMonth() + 1).padStart(2, '0') + '-' + String(today.getDate()).padStart(2, '0')
MonthDayText(dt) == PadStart2(NumText(dt.m)) \o <<"-">> \o PadStart2(NumText(dt.d))

TodayMatching(d, monthDay) ==
    {r \in d : /\ r.published = 1
               /\ \/ StrfMonthDay(r.birth_date) = monthDay
                  \/ StrfMonthDay(r.death_date) = monthDay}

RowTodayEventsBirthOnly(row, monthDay, year, zone) ==
    IF ~Falsy(row.birth_date) /\ Substring5(row.birth_date) = monthDay
    THEN <<Event(row, "birth", row.birth_date, YearsAgo(year, row.birth_date, zone))>>
    ELSE IF ~Falsy(row.death_date) /\ Substring5(row.death_date) = monthDay
    THEN <<Event(row, "death", row.death_date, YearsAgo(year, row.death_date, zone))>>
    ELSE <<>>

\* The body of rows.forEach in the today handler.
RowTodayEvents(row, monthDay, year, zone) ==
    (IF ~Falsy(row.birth_date) /\ Substring5(row.birth_date) = monthDay
     THEN <<Event(row, "birth", row.birth_date, YearsAgo(year, row.birth_date, zone))>>
     ELSE <<>>)
    \o
    (IF ~Falsy(row.death_date) /\ Substring5(row.death_date) = monthDay
     THEN <<Event(row, "death", row.death_date, YearsAgo(year, row.death_date, zone))>>
     ELSE <<>>)

RECURSIVE TodayEvents(_, _, _, _)
TodayEvents(rows, monthDay, year, zone) ==
    IF rows = <<>> THEN <<>>
    ELSE RowTodayEvents(Head(rows), monthDay, year, zone)
         \o TodayEvents(Tail(rows), monthDay, year, zone)

CalendarMatching(d, month) ==
    {r \in d : /\ r.published = 1
               /\ \/ StrfMonth(r.birth_date) = month
                  \/ StrfMonth(r.death_date) = month}

\* if (!events[key]) events[key] = []; events[key].push(ev)
PushEvent(events, key, ev) ==
    [k \in DOMAIN events \cup {key} |->
        IF k = key
        THEN (IF key \in DOMAIN events THEN Append(events[key], ev) ELSE <<ev>>)
        ELSE events[k]]

InMonth(date, month) == ~Falsy(date) /\ Contains(date, <<"-">> \o month \o <<"-">>)

\* The body of rows.forEach in the month handler.
RowCalendarEvents(events, row, month, year, zone) ==
    LET born ==
            IF InMonth(row.birth_date, month)
            THEN PushEvent(events,
                           month \o <<"-">> \o GetDateText(row.birth_date, zone),
                           Event(row, "birth", row.birth_date,
                                 YearsAgo(year, row.birth_date, zone)))
            ELSE events
    IN  IF InMonth(row.death_date, month)
        THEN PushEvent(born,
                       month \o <<"-">> \o GetDateText(row.death_date, zone),
                       Event(row, "death", row.death_date,
                             YearsAgo(year, row.death_date, zone)))
        ELSE born

RECURSIVE CalendarEvents(_, _, _, _, _)
CalendarEvents(rows, events, month, year, zone) ==
    IF rows = <<>> THEN events
    ELSE CalendarEvents(Tail(rows),
                        RowCalendarEvents(events, Head(rows), month, year, zone),
                        month, year, zone)

\* GET /api/calendar/today: the cache check; on a miss the query is queued.
TodayStart(s, req) ==
    /\ reqs[s] = Idle
    /\ IF CacheFresh(cache, TodayKey, now)
       THEN /\ resp' = Response("today", req, 200, CacheValue(cache, TodayKey), TRUE)
            /\ UNCHANGED <<cache, reqs>>
       ELSE /\ cache' = CacheAfterGet(cache, TodayKey, now)
            /\ reqs' = [reqs EXCEPT ![s] =
                           [kind |-> "today", pc |-> "query", req |-> req,
                            monthDay |-> MonthDayText(today),
                            viewingYear |-> ParseIntOr(req.year, today.y),
                            rows |-> <<>>]]
            /\ UNCHANGED resp
    /\ UNCHANGED <<db, now, today, tz>>

TodayExec(s) ==
    /\ reqs[s].kind = "today"
    /\ reqs[s].pc = "query"
    /\ \E rows \in AnyOrder(TodayMatching(db, reqs[s].monthDay)) :
           reqs' = [reqs EXCEPT ![s].pc = "callback", ![s].rows = rows]
    /\ UNCHANGED <<db, cache, now, resp, today, tz>>

TodayCallback(s) ==
    /\ reqs[s].kind = "today"
    /\ reqs[s].pc = "callback"
    /\ LET events == TodayEvents(reqs[s].rows, reqs[s].monthDay,
                                 reqs[s].viewingYear, tz)
       IN  /\ cache' = CacheSet(cache, TodayKey, events, CalendarTtl, now)
           /\ resp' = Response("today", reqs[s].req, 200, events, FALSE)
    /\ Finish(s)
    /\ UNCHANGED <<db, now, today, tz>>

\* String(parseInt(req.query.month) || new Date().getMonth() + 1).padStart(2, '0')
CalendarMonth(req, dt) == PadStart2(NumText(ParseIntOr(req.month, dt.m)))

\* GET /api/calendar: the cache check; on a miss the query is queued.
CalendarStart(s, req) ==
    LET month == CalendarMonth(req, today)
        year == ParseIntOr(req.year, today.y)
    IN  /\ reqs[s] = Idle
        /\ IF CacheFresh(cache, CalendarKey(month, year), now)
           THEN /\ resp' = Response("calendar", req, 200,
                                    CacheValue(cache, CalendarKey(month, year)), TRUE)
                /\ UNCHANGED <<cache, reqs>>
           ELSE /\ cache' = CacheAfterGet(cache, CalendarKey(month, year), now)
                /\ reqs' = [reqs EXCEPT ![s] =
                               [kind |-> "calendar", pc |-> "query", req |-> req,
                                month |-> month, year |-> year, rows |-> <<>>]]
                /\ UNCHANGED resp
        /\ UNCHANGED <<db, now, today, tz>>

CalendarExec(s) ==
    /\ reqs[s].kind = "calendar"
    /\ reqs[s].pc = "query"
    /\ \E rows \in AnyOrder(CalendarMatching(db, reqs[s].month)) :
           reqs' = [reqs EXCEPT ![s].pc = "callback", ![s].rows = rows]
    /\ UNCHANGED <<db, cache, now, resp, today, tz>>

CalendarCallback(s) ==
    /\ reqs[s].kind = "calendar"
    /\ reqs[s].pc = "callback"
    /\ LET events == CalendarEvents(reqs[s].rows, <<>>, reqs[s].month,
                                    reqs[s].year, tz)
       IN  /\ cache' = CacheSet(cache, CalendarKey(reqs[s].month, reqs[s].year),
                                events, CalendarTtl, now)
           /\ resp' = Response("calendar", reqs[s].req, 200, events, FALSE)
    /\ Finish(s)
    /\ UNCHANGED <<db, now, today, tz>>

LastDay == 8
MaxCalTicks == 1
CalTickSeconds == 301

\* The day of the host changes.
Midnight ==
    /\ today.d < LastDay
    /\ today' = NextDay(today)
    /\ now' = now + 1
    /\ UNCHANGED <<db, cache, reqs, resp, tz>>

\* Longer than CalendarTtl passes.
CalTick ==
    /\ now < MaxCalTicks * CalTickSeconds
    /\ now' = now + CalTickSeconds
    /\ UNCHANGED <<db, cache, reqs, resp, today, tz>>

----------------------------------------------------------------------------
(* GET /api/homes/map, GET /api/homes/:slug and GET /api/tags *)

MapTtl == 300
DetailTtl == 60
TagsTtl == 600

MapKey == [route |-> "map_data_all", q |-> <<>>]

DetailKey(slug) == [route |-> "home_detail", q |-> slug]

TagsKey == [route |-> "tags_list_all", q |-> <<>>]

\* The process has left through process.exit(code).
ProcessExit(code) == Response("exit", <<>>, code, <<>>, FALSE)

Running == resp.kind # "exit"

MapMatchingUnpublishedToo(d) == {r \in d : r.lat # Null /\ r.lng # Null}

\* WHERE published = 1 AND lat IS NOT NULL AND lng IS NOT NULL
MapMatching(d) == {r \in d : r.published = 1 /\ r.lat # Null /\ r.lng # Null}

Marker(row) ==
    [id |-> row.id, slug |-> row.slug, name |-> row.name,
     lat |-> row.lat, lng |-> row.lng]

\* GET /api/homes/map: the cache check; on a miss the query is queued.
MapStart(s) ==
    /\ reqs[s] = Idle
    /\ IF CacheFresh(cache, MapKey, now)
       THEN /\ resp' = Response("map", <<>>, 200, CacheValue(cache, MapKey), TRUE)
            /\ UNCHANGED <<cache, reqs>>
       ELSE /\ cache' = CacheAfterGet(cache, MapKey, now)
            /\ reqs' = [reqs EXCEPT ![s] = [kind |-> "map", pc |-> "query", rows |-> <<>>]]
            /\ UNCHANGED resp
    /\ UNCHANGED <<db, now, today, tz>>

\* The SELECT runs: the matching rows by name.
MapExec(s) ==
    /\ reqs[s].kind = "map"
    /\ reqs[s].pc = "query"
    /\ \E rows \in Orderings(MapMatching(db)) :
           reqs' = [reqs EXCEPT ![s].pc = "callback", ![s].rows = rows]
    /\ UNCHANGED <<db, cache, now, resp, today, tz>>

MapCallback(s) ==
    /\ reqs[s].kind = "map"
    /\ reqs[s].pc = "callback"
    /\ LET mapData == [i \in 1..Len(reqs[s].rows) |-> Marker(reqs[s].rows[i])]
       IN  /\ cache' = CacheSet(cache, MapKey, mapData, MapTtl, now)
           /\ resp' = Response("map", <<>>, 200, mapData, FALSE)
    /\ Finish(s)
    /\ UNCHANGED <<db, now, today, tz>>

\* JSON.parse(text || '[]')
ParseOrEmpty(text) == JsonParse(IF Falsy(text) THEN <<"[", "]">> ELSE text)

\* One of the three JSON.parse calls of the full detail path throws.
RowToHomeThrows(row) ==
    \/ ~ParseOrEmpty(row.images).ok
    \/ ~ParseOrEmpty(row.sources).ok
    \/ ~ParseOrEmpty(row.tags).ok

\* rowToHome(row, false)
RowToHome(row) ==
    [id |-> row.id, slug |-> row.slug, name |-> row.name,
     biography |-> row.biography, address |-> row.address,
     coordinates |-> IF row.lat # Null /\ row.lat # Zero /\ row.lng # Null /\ row.lng # Zero
                     THEN [lat |-> row.lat, lng |-> row.lng] ELSE Null,
     images |-> ToJs(ParseOrEmpty(row.images).val),
     sources |-> ToJs(ParseOrEmpty(row.sources).val),
     tags |-> ToJs(ParseOrEmpty(row.tags).val),
     published |-> row.published = 1,
     birth_date |-> row.birth_date, death_date |-> row.death_date]

\* GET /api/homes/:slug: the cache check; on a miss the lookup is queued.
GetStart(s, slug) ==
    /\ reqs[s] = Idle
    /\ IF CacheFresh(cache, DetailKey(slug), now)
       THEN /\ resp' = Response("get", slug, 200, CacheValue(cache, DetailKey(slug)), TRUE)
            /\ UNCHANGED <<cache, reqs>>
       ELSE /\ cache' = CacheAfterGet(cache, DetailKey(slug), now)
            /\ reqs' = [reqs EXCEPT ![s] =
                           [kind |-> "get", pc |-> "query", slug |-> slug, rows |-> <<>>]]
            /\ UNCHANGED resp
    /\ UNCHANGED <<db, now, today, tz>>

\* SELECT * FROM homes WHERE slug = ? OR id = ? : db.get hands over the first
\* row of the result, or none.
GetExec(s) ==
    /\ reqs[s].kind = "get"
    /\ reqs[s].pc = "query"
    /\ LET found == {r \in db : r.slug = reqs[s].slug \/ r.id = reqs[s].slug}
       IN  \E rows \in (IF found = {} THEN {<<>>} ELSE {<<r>> : r \in found}) :
               reqs' = [reqs EXCEPT ![s].pc = "callback", ![s].rows = rows]
    /\ UNCHANGED <<db, cache, now, resp, today, tz>>

\* The callback of the lookup. An exception of rowToHome leaves the callback
\* uncaught; the uncaughtException handler calls process.exit(1).
GetCallback(s) ==
    /\ reqs[s].kind = "get"
    /\ reqs[s].pc = "callback"
    /\ IF reqs[s].rows = <<>>
       THEN /\ resp' = Response("get", reqs[s].slug, 404, [error |-> <<"Home not found">>], FALSE)
            /\ UNCHANGED cache
       ELSE IF RowToHomeThrows(reqs[s].rows[1])
       THEN /\ resp' = ProcessExit(1)
            /\ UNCHANGED cache
       ELSE /\ cache' = CacheSet(cache, DetailKey(reqs[s].slug),
                                 RowToHome(reqs[s].rows[1]), DetailTtl, now)
            /\ resp' = Response("get", reqs[s].slug, 200, RowToHome(reqs[s].rows[1]), FALSE)
    /\ Finish(s)
    /\ UNCHANGED <<db, now, today, tz>>

\* The tags one row adds to tagSet: nothing when JSON.parse or forEach throws.
RowTags(text) ==
    LET r == ParseOrEmpty(text)
    IN  IF ~r.ok \/ r.val.t # "arr" THEN {}
        ELSE {TrimRight(TrimLeft(r.val.v[i].v)) :
                 i \in {j \in 1..Len(r.val.v) : r.val.v[j].t = "str" /\ r.val.v[j].v # <<>>}}

\* SELECT DISTINCT tags FROM homes WHERE published = 1, folded into tagSet.
TagSet(d) == UNION {RowTags(r.tags) : r \in {x \in d : x.published = 1}}

\* GET /api/tags: the cache check; on a miss the query is queued.
TagsStart(s) ==
    /\ reqs[s] = Idle
    /\ IF CacheFresh(cache, TagsKey, now)
       THEN /\ resp' = Response("tags", <<>>, 200, CacheValue(cache, TagsKey), TRUE)
            /\ UNCHANGED <<cache, reqs>>
       ELSE /\ cache' = CacheAfterGet(cache, TagsKey, now)
            /\ reqs' = [reqs EXCEPT ![s] = [kind |-> "tags", pc |-> "query", tags |-> {}]]
            /\ UNCHANGED resp
    /\ UNCHANGED <<db, now, today, tz>>

TagsExec(s) ==
    /\ reqs[s].kind = "tags"
    /\ reqs[s].pc = "query"
    /\ reqs' = [reqs EXCEPT ![s].pc = "callback", ![s].tags = TagSet(db)]
    /\ UNCHANGED <<db, cache, now, resp, today, tz>>

\* The callback sorts with localeCompare(b, 'bg'); the model leaves the
\* collation open and takes any order of the set.
TagsCallback(s) ==
    /\ reqs[s].kind = "tags"
    /\ reqs[s].pc = "callback"
    /\ \E tagArray \in AnyOrder(reqs[s].tags) :
           /\ cache' = CacheSet(cache, TagsKey, tagArray, TagsTtl, now)
           /\ resp' = Response("tags", <<>>, 200, tagArray, FALSE)
    /\ Finish(s)
    /\ UNCHANGED <<db, now, today, tz>>

----------------------------------------------------------------------------
(* The server under concurrent requests *)

Home(id, slug, name, tags, published) ==
    [id |-> id, slug |-> slug, name |-> name, biography |-> Null,
     address |-> Null, tags |-> tags, published |-> published,
     birth_date |-> Null, death_date |-> Null]

\* Request bodies of the admin panel.
Homes ==
    {Home(Null, Null, <<"A">>, <<<<"R">>>>, TRUE),
     Home(<<"a">>, <<"a">>, <<"a", "b">>, <<<<"r">>>>, FALSE),
     Home(Null, Null, <<>>, <<>>, TRUE),
     Home(Null, Null, Null, <<>>, TRUE)}

Ids == {<<"a">>, <<"b">>}

Query(all, page, limit, search, mode, tag) ==
    [all |-> all, page |-> page, limit |-> limit, search |-> search,
     searchMode |-> mode, tag |-> tag]

\* The list requests of the public pages.
Queries ==
    {Query(FALSE, RawNone, RawNone, <<>>, "all", <<>>),
     Query(FALSE, RawNone, RawNone, <<>>, "all", <<"r">>)}

PendingInserts == Cardinality({s \in Slots : reqs[s].kind = "post"})

Init ==
    /\ db = {}
    /\ cache = <<>>
    /\ now = 0
    /\ reqs = [s \in Slots |-> Idle]
    /\ resp = NoResp
    /\ today = [y |-> 2025, m |-> 11, d |-> 7]
    /\ tz = 0

Next ==
    \/ \E s \in Readers, q \in Queries : ListStart(s, q)
    \/ \E s \in Slots : ListCount(s)
    \/ \E s \in Slots : ListFetch(s)
    \/ \E s \in Slots : ListCallback(s)
    \/ \E s \in Writers, home \in Homes :
           /\ Cardinality(db) + PendingInserts < MaxHomes
           /\ PostHome(s, home)
    \/ \E s \in Slots : InsertExec(s)
    \/ \E s \in Writers, id \in Ids, home \in Homes : PutHome(s, id, home)
    \/ \E s \in Slots : UpdateExec(s)
    \/ \E s \in Slots : PutCallback(s)
    \/ \E s \in Writers, id \in Ids : DeleteHome(s, id)
    \/ \E s \in Slots : DeleteExec(s)
    \/ \E s \in Slots : DeleteCallback(s)
    \/ Tick

Spec == Init /\ [][Next]_vars

----------------------------------------------------------------------------
(* Claims about the cache and the writes *)

Unfiltered(q) == q.search = <<>> /\ q.tag = <<>>

\* Every write that was queued has run and has been answered.
WritesQuiescent == \A s \in Slots : reqs[s].kind \notin {"post", "put", "delete"}

\* The bodies a list request would get from the store as it is now.
FreshListBodies(q) ==
    {ListBody(q, CountRows(db, q), rows) : rows \in FetchRows(db, q)}

\* C1 (as claimed): once every write has been applied and acknowledged, a list
\* response served from apiCache is the response the store as written gives;
\* no response computed before the write is served after it.
C1_AckedWritesVisible ==
    [][(/\ WritesQuiescent
        /\ resp' # resp
        /\ resp'.kind = "list"
        /\ resp'.hit)
       => resp'.body \in FreshListBodies(resp'.req)]_vars

\* C2: the empty page of a request with no search and no tag is never in
\* apiCache, and no such request is ever answered an empty page from the cache.
C2_EmptyUnfilteredNotCached ==
    /\ \A i \in 1..Len(cache) :
           Unfiltered(cache[i].k.q) => Len(cache[i].d.data) > 0
    /\ (resp.kind = "list" /\ resp.hit /\ Unfiltered(resp.req))
           => Len(resp.body.data) > 0

\* An unfiltered request was answered an empty page from the store, the page
\* is not in the cache, and a published record has been inserted since.
C2_Witness ==
    /\ resp.kind = "list"
    /\ resp.status = 200
    /\ ~resp.hit
    /\ Unfiltered(resp.req)
    /\ Len(resp.body.data) = 0
    /\ CacheIndex(cache, ListKey(resp.req)) = {}
    /\ \E r \in db : r.published = 1

----------------------------------------------------------------------------
(* One list request at a time over a populated store *)

MaxListHomes == 3

Row(id, name, biography, address, tags, published) ==
    [id |-> id, slug |-> id, name |-> name, biography |-> biography,
     address |-> address, lat |-> Null, lng |-> Null,
     images |-> JsonStringify(<<>>), sources |-> JsonStringify(<<>>),
     tags |-> JsonStringify(tags), published |-> published,
     birth_date |-> Null, death_date |-> Null]

ListRows ==
    {Row(<<"a">>, <<"a", "b">>, <<"r">>, <<"B">>, <<<<"R">>>>, 1),
     Row(<<"b">>, <<"b">>, Null, <<"a", " ", "b">>, <<<<"r">>, <<"zh">>>>, 1),
     Row(<<"r">>, <<"ZH", "a">>, <<"zh">>, <<>>, <<<<"ZH">>>>, 1),
     Row(<<"zh">>, <<"a">>, <<>>, <<>>, <<>>, 0)}

ListStores == {S \in SUBSET ListRows : Cardinality(S) <= MaxListHomes}

\* Requests that filter, with the default page and limit.
FilterQueries ==
    {Query(all, RawNone, RawNone, search, mode, tag) :
        all \in BOOLEAN,
        search \in {<<>>, <<"a">>, <<"A">>, <<"b", " ", "r">>, <<"zh">>, <<"_">>, <<" ">>},
        mode \in {"all", "name"},
        tag \in {<<>>, <<"r">>, <<"R">>, <<"zh">>, <<"ZH">>}}

\* Requests that page through the unfiltered list.
PageQueries ==
    {Query(all, page, limit, <<>>, "all", <<>>) :
        all \in BOOLEAN,
        page \in {RawNone, RawText, RawNum(0), RawNum(1), RawNum(2), RawNum(3)},
        limit \in {RawNone, RawText, RawNum(0), RawNum(-1), RawNum(1), RawNum(2), RawNum(25)}}

ListQueries == FilterQueries \cup PageQueries

InitList ==
    /\ db \in ListStores
    /\ cache = <<>>
    /\ now = 0
    /\ reqs = [s \in Slots |-> Idle]
    /\ resp = NoResp
    /\ today = [y |-> 2025, m |-> 11, d |-> 7]
    /\ tz = 0

\* The first request is any request; it is then repeated.
NextList ==
    \/ \E q \in ListQueries :
           /\ resp.kind = "none" \/ resp.req = q
           /\ ListStart(1, q)
    \/ ListCount(1)
    \/ ListFetch(1)
    \/ ListCallback(1)

SpecList == InitList /\ [][NextList]_vars

----------------------------------------------------------------------------
(* Claims about pagination, search and the tag filter *)

ListOk == resp.kind = "list" /\ resp.status = 200

\* The request names a page >= 1 and a limit > 0.
ValidPaging(q) ==
    /\ q.page.t = "num"
    /\ q.page.n >= 1
    /\ q.limit.t = "num"
    /\ q.limit.n > 0

\* C3: for page >= 1 and limit > 0 the page holds at most limit records (the
\* limit asked for and the limit reported) and totalPages is the least number
\* of pages of the reported limit that hold total records.
C3_PageWithinLimit ==
    (ListOk /\ ValidPaging(resp.req)) =>
        LET p == resp.body.pagination
        IN  /\ Len(resp.body.data) <= resp.req.limit.n
            /\ Len(resp.body.data) <= p.limit
            /\ p.totalPages * p.limit >= p.total
            /\ (p.totalPages - 1) * p.limit < p.total

\* A full page of a list of several pages.
C3_Witness ==
    /\ ListOk
    /\ ValidPaging(resp.req)
    /\ Len(resp.body.data) = resp.req.limit.n
    /\ resp.body.pagination.totalPages >= 2
    /\ resp.body.pagination.total > resp.body.pagination.limit

\* C4 (as claimed): whatever the limit parameter, the request succeeds with an
\* effective limit in 1..20 and at most 20 records; a page that is not a
\* number or is zero reads as page 1.
C4_LimitClamped ==
    (resp.kind = "list" /\ resp.req \in PageQueries) =>
        /\ resp.status = 200
        /\ resp.body.pagination.limit \in 1..MaxLimit
        /\ Len(resp.body.data) <= MaxLimit
        /\ (resp.req.limit.t # "num" => resp.body.pagination.limit = DefaultLimit)
        /\ ((resp.req.page.t # "num" \/ resp.req.page.n = 0)
                => resp.body.pagination.page = 1)

\* w is a case-insensitive substring of the field.
WordIn(field, w) == field # Null /\ Contains(Fold(field), Fold(w))

\* Every word is in at least one permitted field.
EveryWordInSomeField(q, row) ==
    \A i \in 1..Len(SplitWords(q.search)) :
        LET w == SplitWords(q.search)[i]
        IN  IF q.searchMode = "name"
            THEN WordIn(row.name, w)
            ELSE \/ WordIn(row.name, w)
                 \/ WordIn(row.biography, w)
                 \/ WordIn(row.address, w)
                 \/ WordIn(row.tags, w)

DataIds(body) == {body.data[i].id : i \in 1..Len(body.data)}

\* C6 (as claimed): a search request succeeds and lists exactly the visible
\* records in which every word of the search is a case-insensitive substring
\* of a permitted field.
C6_SearchIsWordSubstring ==
    (/\ resp.kind = "list"
     /\ resp.req \in FilterQueries
     /\ resp.req.search # <<>>
     /\ resp.req.tag = <<>>) =>
        /\ resp.status = 200
        /\ DataIds(resp.body) =
               {r.id : r \in {x \in db : /\ resp.req.all \/ x.published = 1
                                         /\ EveryWordInSomeField(resp.req, x)}}

\* The requests that differ from q in the case of the tag only.
TagCaseVariants(q) ==
    {v \in FilterQueries : /\ Fold(v.tag) = Fold(q.tag)
                           /\ [v EXCEPT !.tag = q.tag] = q}

\* C7 (as claimed): the response to a tag request, from the store or from the
\* cache, is the response to every request whose tag differs in case only.
C7_TagCaseInsensitive ==
    (/\ resp.kind = "list"
     /\ resp.req \in FilterQueries
     /\ resp.req.search = <<>>
     /\ resp.req.tag # <<>>) =>
        \A v \in TagCaseVariants(resp.req) :
            /\ resp.status = 200
            /\ resp.body \in FreshListBodies(v)

----------------------------------------------------------------------------
(* One list request at a time against the low-memory variant *)

LeanQueries ==
    {Query(all, page, limit, <<>>, "all", <<>>) :
        all \in BOOLEAN,
        page \in {RawNone, RawNum(1), RawNum(2), RawNum(3), RawNum(52), RawNum(100)},
        limit \in {RawNone, RawNum(1), RawNum(2), RawNum(25)}}
    \cup
    {Query(FALSE, RawNone, RawNone, search, mode, tag) :
        search \in {<<>>, <<"a">>, <<" ", "ZH">>},
        mode \in {"all", "smart"},
        tag \in {<<>>, <<"R">>}}

NextLean ==
    \/ \E q \in LeanQueries :
           /\ resp.kind = "none" \/ resp.req = q
           /\ LeanListStart(1, q)
    \/ LeanListCount(1)
    \/ LeanListFetch(1)

SpecLean == InitList /\ [][NextLean]_vars

\* The request asks for a page past the last page of the matching records.
PageBeyondEnd(q, total, limit) ==
    /\ q.page.t = "num"
    /\ q.page.n >= 1
    /\ limit > 0
    /\ q.page.n > CeilDiv(total, limit)

\* C5 (as claimed): a request for a page past the last one is answered 200
\* with no records and the pagination of the store, never an error.
C5_PageBeyondEndIsEmpty ==
    /\ (/\ resp.kind = "list"
        /\ PageBeyondEnd(resp.req, CountRows(db, resp.req), ListLimit(resp.req)))
           => /\ resp.status = 200
              /\ resp.body.data = <<>>
              /\ resp.body.pagination.total = CountRows(db, resp.req)
              /\ resp.body.pagination.page = resp.req.page.n
              /\ ~resp.body.pagination.hasNext
    /\ (/\ resp.kind = "leanlist"
        /\ PageBeyondEnd(resp.req, Cardinality(LeanMatching(db, resp.req)),
                         LeanLimit(resp.req)))
           => /\ resp.status = 200
              /\ resp.body.data = <<>>
              /\ resp.body.pagination.total = Cardinality(LeanMatching(db, resp.req))
              /\ resp.body.pagination.page = resp.req.page.n
              /\ ~resp.body.pagination.hasNext

----------------------------------------------------------------------------
(* The calendar endpoints over a fixed store, across time zones and a day change *)

IsoText(y, m, d) ==
    NumText(y) \o <<"-">> \o PadStart2(NumText(m)) \o <<"-">> \o PadStart2(NumText(d))

CalRow(name, birth, death, published) ==
    [id |-> name, slug |-> name, name |-> name, biography |-> Null,
     address |-> Null, lat |-> Null, lng |-> Null,
     images |-> JsonStringify(<<>>), sources |-> JsonStringify(<<>>),
     tags |-> JsonStringify(<<>>), published |-> published,
     birth_date |-> birth, death_date |-> death]

CalRows ==
    {CalRow(<<"a">>, IsoText(1850, 11, 7), IsoText(1900, 11, 7), 1),
     CalRow(<<"b">>, IsoText(1900, 11, 7), Null, 1),
     CalRow(<<"r">>, IsoText(1850, 1, 1), IsoText(1900, 11, 8), 1),
     CalRow(<<"zh">>, IsoText(1850, 11, 7), <<>>, 0)}

MaxCalHomes == 2

CalStores == {S \in SUBSET CalRows : Cardinality(S) <= MaxCalHomes}

Zones == {-5, 2}

TodayReqs == {[year |-> y] : y \in {RawNone, RawNum(2000)}}

CalendarReqs ==
    {[month |-> RawNone, year |-> RawNone],
     [month |-> RawNum(1), year |-> RawNum(2000)]}

InitCal ==
    /\ db \in CalStores
    /\ cache = <<>>
    /\ now = 0
    /\ reqs = [s \in Slots |-> Idle]
    /\ resp = NoResp
    /\ today = [y |-> 2025, m |-> 11, d |-> 7]
    /\ tz \in Zones

NextCal ==
    \/ \E req \in TodayReqs : TodayStart(1, req)
    \/ TodayExec(1)
    \/ TodayCallback(1)
    \/ \E req \in CalendarReqs : CalendarStart(1, req)
    \/ CalendarExec(1)
    \/ CalendarCallback(1)
    \/ Midnight
    \/ CalTick

SpecCal == InitCal /\ [][NextCal]_vars

ViewingYear(req) == ParseIntOr(req.year, today.y)

\* C8 (as claimed): every event of a today response has years_ago equal to
\* the requested year (the current year when none is given) minus the year of
\* its date, cached responses included.
C8_YearsAgoFollowsRequest ==
    (resp.kind = "today" /\ resp.status = 200)
        => \A i \in 1..Len(resp.body) :
               resp.body[i].years_ago
                   = ViewingYear(resp.req) - TextNum(SubSeq(resp.body[i].full_date, 1, 4))

\* C9 (as claimed): every event of a month response is filed under the MM-DD
\* characters of its own date, whatever the time zone of the host.
C9_FiledUnderMonthDay ==
    (resp.kind = "calendar" /\ resp.status = 200)
        => \A key \in DOMAIN resp.body :
               \A i \in 1..Len(resp.body[key]) :
                   key = SubSeq(resp.body[key][i].full_date, 6, 10)

\* Events of the record slug with the given type, in a list of events.
EventsOf(list, slug, type) ==
    {i \in 1..Len(list) : list[i].slug = slug /\ list[i].type = type}

SameMonthDay(r) ==
    /\ r.published = 1
    /\ ~Falsy(r.birth_date)
    /\ ~Falsy(r.death_date)
    /\ Substring5(r.birth_date) = Substring5(r.death_date)

\* C10: the response the today handler computes on a day, and the one the
\* month handler computes for a month, hold for every published record whose
\* birth and death fall on one month-day of that day or month one birth event
\* and one death event; nothing is deduplicated.
C10_BirthAndDeathBothEmitted ==
    [][/\ TodayCallback(1)
            => \A r \in db :
                   (SameMonthDay(r) /\ Substring5(r.birth_date) = reqs[1].monthDay)
                       => /\ Cardinality(EventsOf(resp'.body, r.slug, "birth")) = 1
                          /\ Cardinality(EventsOf(resp'.body, r.slug, "death")) = 1
       /\ CalendarCallback(1)
            => \A r \in db :
                   (SameMonthDay(r) /\ SubSeq(r.birth_date, 6, 7) = reqs[1].month)
                       => \E key \in DOMAIN resp'.body :
                              /\ Cardinality(EventsOf(resp'.body[key], r.slug, "birth")) = 1
                              /\ Cardinality(EventsOf(resp'.body[key], r.slug, "death")) = 1
      ]_vars

C10_Witness ==
    /\ resp.kind = "today"
    /\ resp.status = 200
    /\ ~resp.hit
    /\ \E r \in db :
           /\ SameMonthDay(r)
           /\ Cardinality(EventsOf(resp.body, r.slug, "birth")) = 1
           /\ Cardinality(EventsOf(resp.body, r.slug, "death")) = 1

----------------------------------------------------------------------------
(* The calendar endpoints over records with missing and malformed dates *)

\* Text that is no date: a letter where the first hyphen belongs, a day of 40.
TypoDate == <<"1", "8", "5", "0", "x", "1", "1", "-", "0", "7">>
DayFortyDate == <<"1", "8", "5", "0", "-", "1", "1", "-", "4", "0">>

DateRows ==
    {CalRow(<<"a">>, TypoDate, IsoText(1900, 11, 7), 1),
     CalRow(<<"b">>, DayFortyDate, IsoText(1900, 11, 8), 1),
     CalRow(<<"r">>, Null, IsoText(1900, 11, 7), 1),
     CalRow(<<"zh">>, <<>>, TypoDate, 1)}

DateStores == {S \in SUBSET DateRows : Cardinality(S) <= MaxCalHomes}

InitDates ==
    /\ db \in DateStores
    /\ cache = <<>>
    /\ now = 0
    /\ reqs = [s \in Slots |-> Idle]
    /\ resp = NoResp
    /\ today = [y |-> 2025, m |-> 11, d |-> 7]
    /\ tz \in Zones

SpecDates == InitDates /\ [][NextCal]_vars

\* A YYYY-MM-DD text that names a day of the calendar.
WellFormedDate(t) ==
    /\ IsIsoShape(t)
    /\ TextNum(SubSeq(t, 6, 7)) \in 1..12
    /\ TextNum(SubSeq(t, 9, 10)) \in
           1..DaysInMonth(TextNum(SubSeq(t, 1, 4)), TextNum(SubSeq(t, 6, 7)))

\* C11 (as claimed): both calendar endpoints answer 200 and every event they
\* return carries a well-formed date: a missing or malformed date gives no
\* event, also beside a well-formed date of the same record that matches.
C11_MalformedDatesSkipped ==
    /\ (resp.kind = "today")
           => /\ resp.status = 200
              /\ \A i \in 1..Len(resp.body) : WellFormedDate(resp.body[i].full_date)
    /\ (resp.kind = "calendar")
           => /\ resp.status = 200
              /\ \A key \in DOMAIN resp.body :
                     \A i \in 1..Len(resp.body[key]) :
                         WellFormedDate(resp.body[key][i].full_date)

----------------------------------------------------------------------------
(* The write endpoints over bodies that clash, beside one list request *)

\* Bodies with and without id, slug and name; two of them share the slug "a".
WriteHomes ==
    {Home(Null, Null, <<"A">>, <<<<"R">>>>, TRUE),
     Home(<<"b">>, <<"b">>, <<"b">>, <<>>, TRUE),
     Home(<<"b">>, <<"a">>, <<"a", "b">>, <<<<"r">>>>, FALSE),
     Home(Null, Null, <<>>, <<>>, TRUE),
     Home(Null, Null, Null, <<>>, TRUE)}

WriteQueries == {Query(FALSE, RawNone, RawNone, <<>>, "all", <<>>)}

NextWrite ==
    \/ \E s \in Readers, q \in WriteQueries : ListStart(s, q)
    \/ \E s \in Readers : ListCount(s)
    \/ \E s \in Readers : ListFetch(s)
    \/ \E s \in Readers : ListCallback(s)
    \/ \E s \in Writers, home \in WriteHomes :
           /\ Cardinality(db) + PendingInserts < MaxHomes
           /\ PostHome(s, home)
    \/ \E s \in Writers : InsertExec(s)
    \/ \E s \in Writers, id \in Ids, home \in WriteHomes : PutHome(s, id, home)
    \/ \E s \in Writers : UpdateExec(s)
    \/ \E s \in Writers : PutCallback(s)
    \/ \E s \in Writers, id \in Ids : DeleteHome(s, id)
    \/ \E s \in Writers : DeleteExec(s)
    \/ \E s \in Writers : DeleteCallback(s)

SpecWrite == Init /\ [][NextWrite]_vars

\* C12 (as claimed): a DELETE whose statement matched no record is answered
\* 404 and leaves the store as it was.
C12_DeleteUnknownIs404 ==
    [][\A s \in Writers :
          (DeleteCallback(s) /\ reqs[s].changes = 0)
              => (resp'.status = 404 /\ db' = db)]_vars

\* The record PUT leaves under id carries the fields of the body.
Replaced(d, id, home) ==
    \E r \in d :
        /\ r.id = id
        /\ r.slug = home.slug
        /\ r.name = home.name
        /\ r.biography = home.biography
        /\ r.address = home.address
        /\ r.lat = CoordOrNull(Coordinates(home).lat)
        /\ r.lng = CoordOrNull(Coordinates(home).lng)
        /\ r.images = StringifyImages(BodyImages(home))
        /\ r.sources = JsonStringify(BodySources(home))
        /\ r.tags = JsonStringify(home.tags)
        /\ r.published = (IF home.published THEN 1 ELSE 0)
        /\ r.birth_date = OrNull(home.birth_date)
        /\ r.death_date = OrNull(home.death_date)
        /\ r.updated_at = home.updated_at

KnownId(d, id) == \E r \in d : r.id = id

Others(d, id) == {r \in d : r.id # id}

\* C13: a PUT whose id matches no record changes no record, is answered 404
\* and leaves the cache alone; a PUT whose id matches a record and whose
\* UPDATE the table accepts leaves under that id a record with every field of
\* the body, all other records as they were, and is answered 200; an UPDATE
\* the table rejects changes nothing and is answered 500.
C13_PutUnknownOrReplace ==
    [][\A s \in Writers :
          /\ (UpdateExec(s) /\ ~KnownId(db, reqs[s].id))
                => (db' = db /\ reqs'[s].changes = 0 /\ ~reqs'[s].err)
          /\ (PutCallback(s) /\ reqs[s].changes = 0 /\ ~reqs[s].err)
                => (resp'.status = 404 /\ cache' = cache /\ db' = db)
          /\ (UpdateExec(s) /\ KnownId(db, reqs[s].id)
                            /\ ~UpdateFails(db, reqs[s].id, reqs[s].home))
                => /\ Replaced(db', reqs[s].id, reqs[s].home)
                   /\ Cardinality(db' \ Others(db', reqs[s].id)) = 1
                   /\ Others(db', reqs[s].id) = Others(db, reqs[s].id)
                   /\ reqs'[s].changes = 1
          /\ (UpdateExec(s) /\ UpdateFails(db, reqs[s].id, reqs[s].home))
                => (db' = db /\ reqs'[s].err)
          /\ (PutCallback(s) /\ reqs[s].changes > 0) => resp'.status = 200
          /\ (PutCallback(s) /\ reqs[s].err) => resp'.status = 500
      ]_vars

\* A PUT of an unknown id was answered 404 beside a second record and a
\* cached list.
C13_Witness ==
    /\ resp.kind = "put"
    /\ resp.status = 404
    /\ ~KnownId(db, resp.req)
    /\ db # {}
    /\ cache # <<>>

\* C14: a POST whose name is missing or empty is answered 400 and changes
\* neither store nor cache nor queues a statement; any other POST is answered
\* 201 with the id of the row it queues, that id is the id of the body or else
\* the slug, the row is stamped created_at and updated_at with the time of the
\* request, and the row is in the store once the statement has run.
C14_PostValidatesAndStores ==
    [][\A s \in Writers :
          /\ \A home \in Homes :
                PostHome(s, home) =>
                    IF Falsy(home.name)
                    THEN /\ resp'.status = 400
                         /\ db' = db
                         /\ cache' = cache
                         /\ reqs' = reqs
                    ELSE /\ resp'.status = 201
                         /\ resp'.body.id = reqs'[s].row.id
                         /\ reqs'[s].row.id =
                                (IF Falsy(home.id) THEN reqs'[s].row.slug ELSE home.id)
                         /\ reqs'[s].row.name = home.name
                         /\ reqs'[s].row.created_at = now
                         /\ reqs'[s].row.updated_at = now
          /\ InsertExec(s) => reqs[s].row \in db'
      ]_vars

\* A body without id was answered 201 after time had passed, and its record
\* is stored under its slug with both stamps.
C14_Witness ==
    /\ resp.kind = "post"
    /\ resp.status = 201
    /\ Falsy(resp.req.id)
    /\ \E r \in db : /\ r.id = resp.body.id
                     /\ r.id = r.slug
                     /\ r.created_at > 0
                     /\ r.updated_at = r.created_at

\* C15 (as claimed): a write whose statement failed is answered 500 with the
\* generic body, and the record a POST answers 201 for is in the store.
C15_WriteFailureIs500 ==
    [][\A s \in Writers :
          /\ (PutCallback(s) /\ reqs[s].err)
                => (resp'.status = 500 /\ resp'.body = DbError)
          /\ \A home \in WriteHomes :
                (PostHome(s, home) /\ resp'.status = 201)
                    => \E r \in db' : r.id = resp'.body.id
      ]_vars

\* C16 (as claimed): at the step that completes a write (the INSERT of a POST,
\* the callback of an UPDATE or DELETE that changed a row) the cache is empty.
C16_CacheEmptyAfterWrite ==
    [][\A s \in Writers :
          (\/ InsertExec(s)
           \/ (PutCallback(s) /\ reqs[s].changes > 0)
           \/ (DeleteCallback(s) /\ reqs[s].changes > 0))
              => cache' = <<>>]_vars

----------------------------------------------------------------------------
(* apiCache on its own: set, get and clear calls on a cache near its maximum size *)

\* The key of the n-th entry a handler stores.
NthKey(n) == [route |-> "/api/homes/:slug", q |-> n]

\* The cache after set has been called for the first n keys at time 0.
Prefilled(n) == [i \in 1..n |-> [k |-> NthKey(i), d |-> <<"a">>, e |-> CacheTtlList]]

FillLevels == {0, CacheMaxSize - 1}

\* The earliest key and a key not yet stored.
CallKeys == {NthKey(1), NthKey(CacheMaxSize + 1)}

CallValues == {<<"a">>, <<"b">>}

CallTtls == {CacheTtlList, CalendarTtl}

\* apiCache.set(key, value, ttlSeconds)
CacheSetCall(k, v, ttl) ==
    /\ cache' = CacheSet(cache, k, v, ttl, now)
    /\ UNCHANGED <<db, now, reqs, resp, today, tz>>

\* apiCache.get(key): the value, or null.
CacheGetCall(k) ==
    /\ IF CacheFresh(cache, k, now)
       THEN /\ resp' = Response("get", k, 200, CacheValue(cache, k), TRUE)
            /\ UNCHANGED cache
       ELSE /\ resp' = Response("get", k, 200, Null, FALSE)
            /\ cache' = CacheAfterGet(cache, k, now)
    /\ UNCHANGED <<db, now, reqs, today, tz>>

\* apiCache.clear()
CacheClearCall ==
    /\ cache' = <<>>
    /\ UNCHANGED <<db, now, reqs, resp, today, tz>>

InitCache ==
    /\ db = {}
    /\ cache \in {Prefilled(n) : n \in FillLevels}
    /\ now = 0
    /\ reqs = [s \in Slots |-> Idle]
    /\ resp = NoResp
    /\ today = [y |-> 2025, m |-> 11, d |-> 7]
    /\ tz = 0

NextCache ==
    \/ \E k \in CallKeys, v \in CallValues, ttl \in CallTtls : CacheSetCall(k, v, ttl)
    \/ \E k \in CallKeys : CacheGetCall(k)
    \/ CacheClearCall
    \/ Tick

SpecCache == InitCache /\ [][NextCache]_vars

\* The entries of c under key k.
EntriesOf(c, k) == {i \in 1..Len(c) : c[i].k = k}

\* c without its entries under key k, in order.
Without(c, k) == SelectSeq(c, LAMBDA x : x.k # k)

\* C17: get(key) returns the stored value exactly when an entry is present and
\* the time is not past its expiry, and then changes nothing; otherwise it
\* returns null, and when the entry is present and expired it removes that
\* entry and no other.
C17_GetHonoursExpiry ==
    [][\A k \in CallKeys :
          CacheGetCall(k) =>
              IF \E i \in EntriesOf(cache, k) : now <= cache[i].e
              THEN /\ \E i \in EntriesOf(cache, k) : resp'.body = cache[i].d
                   /\ cache' = cache
              ELSE /\ resp'.body = Null
                   /\ EntriesOf(cache', k) = {}
                   /\ cache' = Without(cache, k)
      ]_vars

\* get returned null for an entry whose time had passed and removed it, and
\* the other entries stayed.
C17_Witness ==
    /\ resp.kind = "get"
    /\ ~resp.hit
    /\ resp.req = NthKey(1)
    /\ now > CacheTtlList
    /\ EntriesOf(cache, NthKey(1)) = {}
    /\ EntriesOf(cache, NthKey(2)) # {}

\* C18: the cache never holds more than maxSize entries nor two entries of one
\* key; a set at maxSize removes the floor(maxSize / 4) earliest keys and keeps
\* the others in order, a set below maxSize removes nothing, and after every
\* set the key is present once with the value and the expiry of the call.
C18_BoundedAndEvictsOldest ==
    [][/\ Len(cache') <= CacheMaxSize
       /\ Cardinality({cache'[i].k : i \in 1..Len(cache')}) = Len(cache')
       /\ \A k \in CallKeys, v \in CallValues, ttl \in CallTtls :
             CacheSetCall(k, v, ttl) =>
                 LET kept == IF Len(cache) >= CacheMaxSize
                             THEN SubSeq(cache, CacheMaxSize \div 4 + 1, Len(cache))
                             ELSE cache
                 IN  /\ \E i \in 1..Len(cache') :
                            cache'[i] = [k |-> k, d |-> v, e |-> now + ttl]
                     /\ Without(cache', k) = Without(kept, k)
      ]_vars

\* A set at maxSize has evicted the first quarter: the earliest key is gone,
\* the entries after the quarter stayed, and the key of the call is the last.
C18_Witness ==
    /\ Len(cache) = CacheMaxSize - CacheMaxSize \div 4
    /\ EntriesOf(cache, NthKey(1)) = {}
    /\ cache[Len(cache)].k = NthKey(CacheMaxSize + 1)
    /\ cache[1].k = NthKey(CacheMaxSize \div 4 + 1)

----------------------------------------------------------------------------
(* POST /api/homes of a body without slug, for every short name *)

MaxNameLen == 3

SlugAlphabet == {"A", "a", "1", " ", "-", "_"}

SlugNames == UNION {[1..n -> SlugAlphabet] : n \in 1..MaxNameLen}

NextSlug ==
    \/ \E name \in SlugNames :
           /\ resp.kind = "none"
           /\ PostHome(2, Home(Null, Null, name, <<>>, TRUE))
    \/ InsertExec(2)

SpecSlug == Init /\ [][NextSlug]_vars

IsAlphanumeric(c) == CharCode(c) \in 97..122 \/ CharCode(c) \in 48..57

RECURSIVE HyphenateRuns(_)
\* Every run of characters that are not alphanumeric becomes one hyphen.
HyphenateRuns(s) ==
    IF s = <<>> THEN <<>>
    ELSE IF IsAlphanumeric(Head(s)) THEN <<Head(s)>> \o HyphenateRuns(Tail(s))
    ELSE IF Len(s) > 1 /\ ~IsAlphanumeric(s[2]) THEN HyphenateRuns(Tail(s))
    ELSE <<"-">> \o HyphenateRuns(Tail(s))

\* C19 (as claimed): the slug of a record created without one is the name in
\* lower case, each run of non-alphanumeric characters replaced by one hyphen,
\* without a leading or trailing hyphen.
C19_SlugFromName ==
    (resp.kind = "post" /\ resp.status = 201 /\ Falsy(resp.req.slug))
        => resp.body.slug = TrimHyphens(HyphenateRuns(Fold(resp.req.name)))

----------------------------------------------------------------------------
(* Uniqueness of the slug, under SpecWrite *)

\* The slugs of d identify its records: no two records hold the same slug.
SlugsDistinct(d) == \A r1, r2 \in d : r1.slug = r2.slug => r1 = r2

\* The UPDATE of request s would leave a second record with the slug it binds.
SlugClash(s) ==
    /\ reqs[s].kind = "put"
    /\ reqs[s].pc = "update"
    /\ \E r1, r2 \in db :
           r1.id = reqs[s].id /\ r2.id # r1.id /\ r2.slug = reqs[s].home.slug

\* C20 (as claimed): after every create, update and delete no two stored
\* records have the same slug, and an update that would give two records the
\* same slug fails and leaves the store as it was.
C20_SlugUnique ==
    [][/\ SlugsDistinct(db')
       /\ \A s \in Writers :
              (SlugClash(s) /\ UpdateExec(s)) => (db' = db /\ reqs'[s].err)]_vars

\* The part of C20 the store enforces: slugs that are not NULL are distinct,
\* and an UPDATE binding the slug of another record fails without a change.
SlugUniqueAmongNonNull ==
    [][/\ SlugsDistinct({r \in db' : r.slug # Null})
       /\ \A s \in Writers :
              (SlugClash(s) /\ reqs[s].home.slug # Null /\ UpdateExec(s))
                  => (db' = db /\ reqs'[s].err)]_vars

----------------------------------------------------------------------------
(* The frame of POST /api/homes, under SpecWrite *)

\* C26 (as claimed): the INSERT of a POST leaves every stored record whose id
\* differs from the id of the new record in the store and as it was, also
\* when the new record has the slug of a stored record.
C26_PostKeepsOtherRecords ==
    [][\A s \in Writers :
          InsertExec(s) =>
              \A r \in db : r.id # reqs[s].row.id => r \in db']_vars

----------------------------------------------------------------------------
(* The published field of list summaries, under SpecList *)

\* C27 (as claimed): every summary in the data of a list response carries the
\* published flag stored for its record, for requests with all=true too.
C27_SummaryPublishedIsStored ==
    ListOk =>
        \A i \in 1..Len(resp.body.data) :
            \E r \in db :
                /\ r.id = resp.body.data[i].id
                /\ resp.body.data[i].published = (r.published = 1)

----------------------------------------------------------------------------
(* hasNext, hasPrev and the sequence of pages, under SpecList *)

\* The request of q for page n.
PageOf(q, n) == [q EXCEPT !.page = RawNum(n)]

\* C28: for page >= 1 and limit >= 1, hasNext is true exactly when total
\* exceeds page * limit and hasPrev exactly when page > 1; over the same store
\* the next page holds a record when hasNext is true and none when it is false.
C28_HasNextHasPrev ==
    (ListOk /\ ValidPaging(resp.req)) =>
        LET p == resp.body.pagination
        IN  /\ p.hasNext = (p.total > p.page * p.limit)
            /\ p.hasPrev = (p.page > 1)
            /\ \A rows \in FetchRows(db, PageOf(resp.req, p.page + 1)) :
                   p.hasNext = (ListBody(PageOf(resp.req, p.page + 1), p.total, rows).data # <<>>)

\* A middle page: it has a next and a previous page.
C28_Witness ==
    /\ ListOk
    /\ ValidPaging(resp.req)
    /\ resp.body.pagination.hasNext
    /\ resp.body.pagination.hasPrev
    /\ Len(resp.body.data) >= 1

RECURSIVE ConcatPages(_, _, _, _)
\* The data of pages n..last of the request q over store d, one after another.
ConcatPages(d, q, n, last) ==
    IF n > last THEN <<>>
    ELSE LET rows == CHOOSE rows \in FetchRows(d, PageOf(q, n)) : TRUE
         IN  ListBody(PageOf(q, n), 0, rows).data \o ConcatPages(d, q, n + 1, last)

\* The names of the stored records are distinct.
DistinctNames(d) == \A r1, r2 \in d : r1.name = r2.name => r1 = r2

\* The request names a limit >= 1 or none.
UsualLimit(q) == q.limit.t = "none" \/ (q.limit.t = "num" /\ q.limit.n >= 1)

\* The pages 1..totalPages of the answered request hold every matching record
\* once, by ascending name, and total counts them.
PagesCoverMatching ==
    LET q == resp.req
        p == resp.body.pagination
        all == ConcatPages(db, q, 1, p.totalPages)
    IN  /\ p.total = Len(all)
        /\ \E o \in Orderings(Matching(db, q)) :
               all = [i \in 1..Len(o) |-> RowToHomeList(o[i])]

\* C29 (as claimed): with a fixed filter and limit over records of distinct
\* names, the data of pages 1..totalPages put together is every matching
\* record exactly once in ascending name order, and total is its length.
C29_PagesPartitionMatching ==
    (ListOk /\ DistinctNames(db)) => PagesCoverMatching

\* The part of C29 that holds: the same, for requests with a limit >= 1 or none.
PagesPartitionForUsualLimit ==
    (ListOk /\ DistinctNames(db) /\ UsualLimit(resp.req)) => PagesCoverMatching

----------------------------------------------------------------------------
(* The read endpoints over a store opened from an existing file *)

Image(path, caption, alt) ==
    (PathKey :> path) @@ (CaptionKey :> caption) @@ (AltKey :> alt)

\* A row of the homes table with its JSON columns as stored text.
FullRow(id, name, lat, lng, images, tags, published, birth) ==
    [id |-> id, slug |-> id, name |-> name, biography |-> Null, address |-> Null,
     lat |-> lat, lng |-> lng, images |-> images, sources |-> JsonStringify(<<>>),
     tags |-> tags, published |-> published, birth_date |-> birth,
     death_date |-> Null, created_at |-> 0, updated_at |-> 0]

\* A published record with everything, an unpublished one with everything,
\* and two published ones whose tags or images are not JSON: the file may
\* have been filled by another program, which is what rowToHome guards against.
ReadRows ==
    {FullRow(<<"a">>, <<"a">>, <<"4", "2">>, <<"2", "5">>,
             StringifyImages(<<Image(<<"a">>, <<"b">>, <<"r">>)>>),
             JsonStringify(<<<<"r">>>>), 1, IsoText(1850, 11, 7)),
     FullRow(<<"b">>, <<"b">>, <<"4", "3">>, <<"2", "6">>,
             StringifyImages(<<Image(<<"b">>, <<>>, <<>>)>>),
             JsonStringify(<<<<"zh">>>>), 0, IsoText(1850, 11, 7)),
     FullRow(<<"r">>, <<"r">>, Null, Null,
             JsonStringify(<<>>), <<"[", "\"", "R">>, 1, Null),
     FullRow(<<"zh">>, <<"ZH">>, <<"4", "4">>, Null,
             <<"{", "a">>, JsonStringify(<<<<"R">>>>), 1, Null)}

MaxReadHomes == 2

ReadStores == {S \in SUBSET ReadRows : Cardinality(S) <= MaxReadHomes}

ReadQueries ==
    {Query(all, RawNone, RawNone, <<>>, "all", <<>>) : all \in BOOLEAN}

ReadSlugs == {r.slug : r \in ReadRows}

InitRead ==
    /\ db \in ReadStores
    /\ cache = <<>>
    /\ now = 0
    /\ reqs = [s \in Slots |-> Idle]
    /\ resp = NoResp
    /\ today = [y |-> 2025, m |-> 11, d |-> 7]
    /\ tz = 0

\* One endpoint per run, asked again and again while the process lives.
Asking(kind) == Running /\ resp.kind \in {"none", kind}

NextRead ==
    \/ \E q \in ReadQueries : Asking("list") /\ ListStart(1, q)
    \/ Running /\ ListCount(1)
    \/ Running /\ ListFetch(1)
    \/ Running /\ ListCallback(1)
    \/ Asking("map") /\ MapStart(1)
    \/ Running /\ MapExec(1)
    \/ Running /\ MapCallback(1)
    \/ \E slug \in ReadSlugs : Asking("get") /\ GetStart(1, slug)
    \/ Running /\ GetExec(1)
    \/ Running /\ GetCallback(1)
    \/ Asking("tags") /\ TagsStart(1)
    \/ Running /\ TagsExec(1)
    \/ Running /\ TagsCallback(1)
    \/ \E req \in TodayReqs : Asking("today") /\ TodayStart(1, req)
    \/ Running /\ TodayExec(1)
    \/ Running /\ TodayCallback(1)
    \/ \E req \in CalendarReqs : Asking("calendar") /\ CalendarStart(1, req)
    \/ Running /\ CalendarExec(1)
    \/ Running /\ CalendarCallback(1)

SpecRead == InitRead /\ [][NextRead]_vars

\* The stored records that are not published.
Unpublished(d) == {r \in d : r.published # 1}

\* The tags of the published records of d, as the stored text spells them.
PublishedTags(d) ==
    UNION {{ToJs(JsonParse(r.tags).val)[i] : i \in 1..Len(ToJs(JsonParse(r.tags).val))} :
              r \in {x \in d \ Unpublished(d) : JsonParse(x.tags).ok}}

\* C21: no unpublished record is in the data of a list request without
\* all=true, among the markers of the map, behind a tag of /api/tags, or
\* behind an event of /api/calendar or /api/calendar/today.
C21_UnpublishedNeverShown ==
    /\ (ListOk /\ ~resp.req.all)
          => \A i \in 1..Len(resp.body.data) :
                 \A r \in Unpublished(db) : resp.body.data[i].id # r.id
    /\ (resp.kind = "map" /\ resp.status = 200)
          => \A i \in 1..Len(resp.body) :
                 \A r \in Unpublished(db) : resp.body[i].id # r.id
    /\ (resp.kind = "tags" /\ resp.status = 200)
          => \A i \in 1..Len(resp.body) : resp.body[i] \in PublishedTags(db)
    /\ (resp.kind = "today" /\ resp.status = 200)
          => \A i \in 1..Len(resp.body) :
                 \A r \in Unpublished(db) : resp.body[i].slug # r.slug
    /\ (resp.kind = "calendar" /\ resp.status = 200)
          => \A key \in DOMAIN resp.body :
                 \A i \in 1..Len(resp.body[key]) :
                     \A r \in Unpublished(db) : resp.body[key][i].slug # r.slug

\* The map answered with the marker of the published record while an
\* unpublished record with coordinates is stored.
C21_Witness ==
    /\ resp.kind = "map"
    /\ resp.status = 200
    /\ Len(resp.body) = 1
    /\ \E r \in Unpublished(db) : r.lat # Null /\ r.lng # Null

\* The stored text is not JSON.
Malformed(text) == ~Falsy(text) /\ ~JsonParse(text).ok

\* C23 (as claimed): a stored tags, images or sources text that is not JSON
\* reads as the empty list in the list, the single-record lookup and the tags
\* endpoint, and the request is answered normally.
C23_MalformedJsonReadsEmpty ==
    [][/\ ListCallback(1) =>
             /\ resp'.status = 200
             /\ \A i \in 1..Len(reqs[1].rows) :
                    /\ Malformed(reqs[1].rows[i].tags) => resp'.body.data[i].tags = <<>>
                    /\ Malformed(reqs[1].rows[i].images) => resp'.body.data[i].images = <<>>
       /\ TagsCallback(1) => resp'.status = 200
       /\ (GetCallback(1) /\ reqs[1].rows # <<>>) =>
             /\ resp'.kind = "get"
             /\ resp'.status = 200
             /\ Malformed(reqs[1].rows[1].tags) => resp'.body.tags = <<>>
             /\ Malformed(reqs[1].rows[1].images) => resp'.body.images = <<>>
             /\ Malformed(reqs[1].rows[1].sources) => resp'.body.sources = <<>>
      ]_vars

\* The part of C23 that holds: the list and the tags endpoint answer 200 and
\* read a text that is not JSON as no tags and no image.
MalformedJsonReadsEmptyInLists ==
    [][/\ ListCallback(1) =>
             /\ resp'.status = 200
             /\ \A i \in 1..Len(reqs[1].rows) :
                    /\ Malformed(reqs[1].rows[i].tags) => resp'.body.data[i].tags = <<>>
                    /\ Malformed(reqs[1].rows[i].images) => resp'.body.data[i].images = <<>>
       /\ TagsCallback(1) =>
             /\ resp'.status = 200
             /\ \A r \in db : Malformed(r.tags) => RowTags(r.tags) = {}
      ]_vars

\* C24 (as claimed): handling a request never ends the process.
C24_RequestsNeverExit == Running

----------------------------------------------------------------------------
(* Records written with coordinates, beside the map *)

\* A request body with a coordinates object.
HomeAt(id, name, lat, lng, published) ==
    [coordinates |-> [lat |-> lat, lng |-> lng]] @@ Home(id, id, name, <<>>, published)

\* Bodies on land, on the equator, unpublished, without a longitude and
\* without coordinates.
CoordHomes ==
    {HomeAt(<<"a">>, <<"a">>, <<"4", "2">>, <<"2", "5">>, TRUE),
     HomeAt(<<"b">>, <<"b">>, Zero, <<"2", "5">>, TRUE),
     HomeAt(<<"b">>, <<"A">>, <<"4", "3">>, <<"2", "6">>, FALSE),
     HomeAt(<<"a">>, <<"r">>, <<"4", "2">>, Null, TRUE),
     Home(<<"b">>, <<"b">>, <<"b">>, <<>>, TRUE)}

NextCoord ==
    \/ MapStart(1)
    \/ MapExec(1)
    \/ MapCallback(1)
    \/ \E home \in CoordHomes :
           /\ Cardinality(db) + PendingInserts < MaxHomes
           /\ PostHome(2, home)
    \/ InsertExec(2)
    \/ \E id \in Ids, home \in CoordHomes : PutHome(2, id, home)
    \/ UpdateExec(2)
    \/ PutCallback(2)

SpecCoord == Init /\ [][NextCoord]_vars

\* The body gives a latitude and a longitude.
HasBoth(home) ==
    /\ "coordinates" \in DOMAIN home
    /\ home.coordinates.lat # Null
    /\ home.coordinates.lng # Null

\* The row is on the map of a store that holds it, at the place of the body.
OnMapAt(row, home) ==
    /\ row \in MapMatching({row})
    /\ Marker(row).lat = home.coordinates.lat
    /\ Marker(row).lng = home.coordinates.lng

\* The map query reads every published record with both coordinates once,
\* by name, and the response is their markers.
MapReadsStore ==
    /\ MapExec(1) =>
          /\ {reqs'[1].rows[i] : i \in 1..Len(reqs'[1].rows)}
                 = {r \in db : r.published = 1 /\ r.lat # Null /\ r.lng # Null}
          /\ Len(reqs'[1].rows) = Cardinality(MapMatching(db))
          /\ \A i, j \in 1..Len(reqs'[1].rows) :
                 i < j => ~TextLess(reqs'[1].rows[j].name, reqs'[1].rows[i].name)
    /\ MapCallback(1) =>
          /\ resp'.status = 200
          /\ resp'.body = [i \in 1..Len(reqs[1].rows) |->
                              [id |-> reqs[1].rows[i].id, slug |-> reqs[1].rows[i].slug,
                               name |-> reqs[1].rows[i].name, lat |-> reqs[1].rows[i].lat,
                               lng |-> reqs[1].rows[i].lng]]

\* C22 (as claimed): a published record written with a latitude and a
\* longitude is stored so that the map shows it there, a record that is
\* unpublished or lacks one of the two is not on the map, and the map answers
\* with exactly the markers of the records on it, sorted by name.
C22_MarkerForEveryPlacedRecord ==
    [][/\ MapReadsStore
       /\ \A home \in CoordHomes :
              (PostHome(2, home) /\ resp'.status = 201) =>
                  IF home.published /\ HasBoth(home)
                  THEN OnMapAt(reqs'[2].row, home)
                  ELSE reqs'[2].row \notin MapMatching({reqs'[2].row})
       /\ (UpdateExec(2) /\ reqs'[2].changes = 1) =>
              \A r \in db' :
                  r.id = reqs[2].id =>
                      IF reqs[2].home.published /\ HasBoth(reqs[2].home)
                      THEN OnMapAt(r, reqs[2].home)
                      ELSE r \notin MapMatching({r})
      ]_vars

\* The part of C22 that holds: the same for bodies whose coordinates are not 0.
MarkerForEveryRecordOffZero ==
    [][/\ MapReadsStore
       /\ \A home \in CoordHomes :
              (PostHome(2, home) /\ resp'.status = 201) =>
                  IF home.published /\ HasBoth(home)
                     /\ home.coordinates.lat # Zero /\ home.coordinates.lng # Zero
                  THEN OnMapAt(reqs'[2].row, home)
                  ELSE reqs'[2].row \notin MapMatching({reqs'[2].row})
       /\ (UpdateExec(2) /\ reqs'[2].changes = 1) =>
              \A r \in db' :
                  r.id = reqs[2].id =>
                      IF reqs[2].home.published /\ HasBoth(reqs[2].home)
                         /\ reqs[2].home.coordinates.lat # Zero
                         /\ reqs[2].home.coordinates.lng # Zero
                      THEN OnMapAt(r, reqs[2].home)
                      ELSE r \notin MapMatching({r})
      ]_vars

----------------------------------------------------------------------------
(* Records created with images, read back one at a time *)

\* A request body with an images list.
HomeWithImages(id, images) ==
    [images |-> images] @@ Home(id, id, id, <<>>, TRUE)

\* Lists of two images in either order, with a quote, a backslash, a comma
\* and a bracket inside the texts; an empty list; a body without the property.
ImageHomes ==
    {HomeWithImages(<<"a">>, <<Image(<<"a", "\"", "b">>, <<"\\">>, <<>>),
                               Image(<<"r">>, <<"a", ",", "]">>, <<"b">>)>>),
     HomeWithImages(<<"b">>, <<Image(<<"r">>, <<"a", ",", "]">>, <<"b">>),
                               Image(<<"a", "\"", "b">>, <<"\\">>, <<>>)>>),
     HomeWithImages(<<"r">>, <<>>),
     Home(<<"zh">>, <<"zh">>, <<"zh">>, <<>>, TRUE)}

NextImages ==
    \/ \E home \in ImageHomes :
           /\ Running
           /\ Cardinality(db) + PendingInserts < MaxHomes
           /\ PostHome(2, home)
    \/ Running /\ InsertExec(2)
    \/ \E home \in ImageHomes : Running /\ GetStart(1, PostSlug(home))
    \/ Running /\ GetExec(1)
    \/ Running /\ GetCallback(1)

SpecImages == Init /\ [][NextImages]_vars

\* C25: a record created with a list of images and read back through
\* GET /api/homes/:slugOrId comes with the same image objects (path, caption,
\* alt) in the same order, and reading it never fails.
C25_ImagesRoundTrip ==
    /\ Running
    /\ (resp.kind = "get" /\ resp.status = 200)
          => \A home \in ImageHomes :
                 PostId(home) = resp.body.id => resp.body.images = BodyImages(home)

\* A record with two images, the first with a quote and a backslash in its
\* texts, was read back.
C25_Witness ==
    /\ resp.kind = "get"
    /\ resp.status = 200
    /\ Len(resp.body.images) = 2
    /\ resp.body.images[1] = Image(<<"a", "\"", "b">>, <<"\\">>, <<>>)
    /\ resp.body.images[2][CaptionKey] = <<"a", ",", "]">>

----------------------------------------------------------------------------
(* Startup: initializeDatabase, checkAndMigrateSchema, importInitialData *)

\* The columns checkAndMigrateSchema looks for.
MigratedColumns == {"portrait_url", "birth_date", "death_date"}

\* What importInitialData finds at data/people.js: no file, a file the
\* regular expression does not match, text JSON.parse rejects, or people.
PeopleFiles ==
    {[kind |-> "missing", people |-> <<>>],
     [kind |-> "nomatch", people |-> <<>>],
     [kind |-> "throws", people |-> <<>>],
     [kind |-> "people", people |-> <<>>],
     [kind |-> "people",
      people |-> <<Home(<<"a">>, <<"a">>, <<"A">>, <<<<"r">>>>, TRUE),
                   Home(Null, <<"b">>, <<"b">>, <<>>, TRUE)>>]}

\* The row insertHome binds for a person of the file: no slug is derived.
ImportRow(person) ==
    [PostRow(person) EXCEPT !.id = IF Falsy(person.id) THEN person.slug ELSE person.id,
                            !.slug = person.slug]

\* The chain of startup callbacks, after sqlite3.Database has opened the file
\* and initializeDatabase has queued CREATE TABLE IF NOT EXISTS.
StartupBegin ==
    [kind |-> "startup", pc |-> "create", toAdd |-> {}, pending |-> {},
     addedCount |-> 0, imports |-> 0, count |-> 0, queue |-> <<>>]

ImportDueAfterEach(addedCount, toAdd) == addedCount >= 1

\* if (addedCount === columnsToAdd.length) importInitialData()
ImportDue(addedCount, toAdd) == addedCount = Cardinality(toAdd)

\* importInitialData(): SELECT COUNT(*) is queued.
ImportInitialData(st) == [st EXCEPT !.imports = st.imports + 1, !.pc = "count"]

\* The callback of CREATE TABLE: on an error nothing more happens.
CreateTableCallback ==
    /\ reqs[1].kind = "startup"
    /\ reqs[1].pc = "create"
    /\ \E err \in BOOLEAN :
           reqs' = [reqs EXCEPT ![1].pc = IF err THEN "failed" ELSE "pragma"]
    /\ UNCHANGED <<db, cache, now, resp, today, tz>>

\* The callback of PRAGMA table_info(homes).
SchemaCallback ==
    /\ reqs[1].kind = "startup"
    /\ reqs[1].pc = "pragma"
    /\ \E err \in BOOLEAN, missing \in SUBSET MigratedColumns :
           reqs' = [reqs EXCEPT ![1] =
                       IF err \/ missing = {}
                       THEN ImportInitialData(reqs[1])
                       ELSE [reqs[1] EXCEPT !.pc = "alter", !.toAdd = missing,
                                            !.pending = missing]]
    /\ UNCHANGED <<db, cache, now, resp, today, tz>>

\* The callback of one ALTER TABLE, with or without an error.
AlterCallback ==
    /\ reqs[1].kind = "startup"
    /\ reqs[1].pending # {}
    /\ \E col \in reqs[1].pending, err \in BOOLEAN :
           LET st == [reqs[1] EXCEPT !.pending = reqs[1].pending \ {col},
                                     !.addedCount = reqs[1].addedCount + 1]
           IN  reqs' = [reqs EXCEPT ![1] =
                           IF ImportDue(st.addedCount, st.toAdd)
                           THEN ImportInitialData(st)
                           ELSE st]
    /\ UNCHANGED <<db, cache, now, resp, today, tz>>

\* The callback of SELECT COUNT(*): on an error or a count above 0 it
\* returns; otherwise it reads the file, queues one INSERT per person and
\* clears the cache.
CountCallback ==
    /\ reqs[1].kind = "startup"
    /\ reqs[1].pc = "count"
    /\ \E err \in BOOLEAN, file \in PeopleFiles :
           IF err
           THEN /\ reqs' = [reqs EXCEPT ![1].pc = "done"]
                /\ UNCHANGED cache
           ELSE IF Cardinality(db) > 0
           THEN /\ reqs' = [reqs EXCEPT ![1].pc = "done", ![1].count = Cardinality(db)]
                /\ UNCHANGED cache
           ELSE IF file.kind # "people"
           THEN /\ reqs' = [reqs EXCEPT ![1].pc = "done", ![1].count = 0]
                /\ UNCHANGED cache
           ELSE /\ reqs' = [reqs EXCEPT ![1].pc = IF file.people = <<>> THEN "done" ELSE "insert",
                                        ![1].count = 0,
                                        ![1].queue = file.people]
                /\ cache' = <<>>
    /\ UNCHANGED <<db, now, resp, today, tz>>

\* The next INSERT OR REPLACE of the import runs.
ImportInsert ==
    /\ reqs[1].kind = "startup"
    /\ reqs[1].pc = "insert"
    /\ db' = InsertOrReplace(db, ImportRow(Head(reqs[1].queue)))
    /\ reqs' = [reqs EXCEPT ![1].queue = Tail(reqs[1].queue),
                            ![1].pc = IF Len(reqs[1].queue) = 1 THEN "done" ELSE "insert"]
    /\ UNCHANGED <<cache, now, resp, today, tz>>

\* The file holds no table, an empty table or records.
StartStores == {S \in SUBSET ReadRows : Cardinality(S) <= 1}

InitStartup ==
    /\ db \in StartStores
    /\ cache = <<>>
    /\ now = 0
    /\ reqs = [s \in Slots |-> IF s = 1 THEN StartupBegin ELSE Idle]
    /\ resp = NoResp
    /\ today = [y |-> 2025, m |-> 11, d |-> 7]
    /\ tz = 0

NextStartup ==
    \/ CreateTableCallback
    \/ SchemaCallback
    \/ AlterCallback
    \/ CountCallback
    \/ ImportInsert

SpecStartup == InitStartup /\ [][NextStartup]_vars

\* C30: once the table is created, importInitialData is invoked exactly once
\* whatever the schema check finds and however the ALTER TABLE callbacks come
\* back: never before the last of them, always with it, never again; and the
\* store changes only by the inserts of an import that counted 0 records.
C30_ImportOnceAndOnlyIntoEmpty ==
    [][/\ reqs'[1].imports <= 1
       /\ reqs'[1].pc \in {"count", "insert", "done"} => reqs'[1].imports = 1
       /\ reqs'[1].pc \in {"create", "failed", "pragma", "alter"} => reqs'[1].imports = 0
       /\ reqs'[1].pc = "alter" => reqs'[1].pending # {}
       /\ reqs'[1].pc \in {"count", "insert", "done"} => reqs'[1].pending = {}
       /\ db' # db => (ImportInsert /\ reqs[1].count = 0 /\ reqs[1].imports = 1)
       /\ (CountCallback /\ db # {}) => (reqs'[1].pc = "done" /\ reqs'[1].queue = <<>>)
      ]_vars

\* Three columns were missing, their callbacks came back, the import ran
\* once into the empty table and stored the people of the file.
C30_Witness ==
    /\ reqs[1].kind = "startup"
    /\ reqs[1].pc = "done"
    /\ Cardinality(reqs[1].toAdd) = 3
    /\ reqs[1].addedCount = 3
    /\ reqs[1].imports = 1
    /\ reqs[1].count = 0
    /\ Cardinality(db) = 2

====
